---- MODULE Spec2Model ----
(***************************************************************************)
(* Outline handling of python_freetype: Outline.decompose and Outline.draw *)
(* of freetype2.py, Outline.draw of freetype.py, and Outline.contours.     *)
(*                                                                         *)
(* Python floats are modelled as exact rationals <<numerator, denominator>>*)
(* in lowest terms with a positive denominator, so that the 2/3 factors of *)
(* the quadratic-to-cubic conversion are computed and not rounded.         *)
(* FT.Vector values are records [x, y] of integers (FT.Pos).               *)
(***************************************************************************)
EXTENDS Integers, Sequences, FiniteSets, TLC

(* ------------------------------ bounds -------------------------------- *)

\* most points in an outline
MaxPoints == 5
\* most contours in an outline
MaxContours == 2
\* the statuses an action may return are 0 .. MaxStatus
MaxStatus == 1
\* curves are compared at the parameters t = k / SampleDen, k = 0 .. SampleDen
SampleDen == 4
\* most calls of decompose on one outline
MaxCalls == 2
\* most points in an outline that is decomposed more than once
MaxAgainPoints == 3
\* most points in the outline the first of two threads decomposes
MaxThreadPoints == 3
\* most calls of Library() and get_default_lib()
MaxLibCalls == 4
\* most calls of Glyph.to_bitmap, Stroker.stroke and Stroker.stroke_border
MaxGlyphCalls == 3
\* most glyphs got from slots or copied
MaxNatives == 2
\* most Face, Outline, Bitmap and Stroker objects of a Library
MaxWrappers == 2
\* most runs of the finalizer of one object
MaxRuns == 2
\* largest offset passed to load_sfnt_table
MaxOffset == 3
\* largest length passed to load_sfnt_table, and of a table
MaxLength == 4
\* most points in each of the two outlines of an append
MaxAppendPoints == 3
\* most rows of a bitmap
MaxRows == 2
\* most bytes in a row of a bitmap
MaxPitch == 3

(* ------------------------- program constants -------------------------- *)

CURVEPT_ON == 1
CURVEPT_OFF2 == 0
CURVEPT_OFF3 == 2
Invalid_Outline == 20
\* shift of the 26.6 fixed-point format
F26_6_SHIFT == 6
\* shift of the 16.16 fixed-point format
F16_16_SHIFT == 16
\* bits of a ct.c_ulong
ULONG_BITS == 64
\* significant bits of a Python float
DOUBLE_MANT_DIG == 53
\* bits after the binary point of a float from 2^47 to 2^48
DoubleFracBits == DOUBLE_MANT_DIG - (ULONG_BITS - F16_16_SHIFT)

(* --------------------------- float arithmetic ------------------------- *)

RECURSIVE Gcd(_, _)
Gcd(a, b) == IF b = 0 THEN a ELSE Gcd(b, a % b)

Abs(a) == IF a < 0 THEN -a ELSE a

\* the rational n / d, d # 0, in lowest terms with a positive denominator
Frac(n, d) ==
    LET s == IF d < 0 THEN -1 ELSE 1
        g == Gcd(Abs(n), Abs(d))
    IN  <<(s * n) \div g, (s * d) \div g>>

IntToFloat(i) == <<i, 1>>
\* sums are formed over the least common denominator
fadd(a, b) ==
    LET g == Gcd(a[2], b[2])
    IN  Frac(a[1] * (b[2] \div g) + b[1] * (a[2] \div g), a[2] * (b[2] \div g))
fsub(a, b) == fadd(a, <<-b[1], b[2]>>)
fmul(a, b) == Frac(a[1] * b[1], a[2] * b[2])
fdiv(a, b) == Frac(a[1] * b[2], a[2] * b[1])

RECURSIVE Pow2(_)
Pow2(n) == IF n = 0 THEN 1 ELSE 2 * Pow2(n - 1)

(* -------------------------------- Vector ------------------------------ *)

Vector(x, y) == [x |-> x, y |-> y]
\* Python's None where a Vector is expected: no Vector has a zero denominator
None == Vector(<<0, 0>>, <<0, 0>>)

Vector_add(v1, v2) == Vector(fadd(v1.x, v2.x), fadd(v1.y, v2.y))
Vector_sub(v1, v2) == Vector(fsub(v1.x, v2.x), fsub(v1.y, v2.y))
\* v * f and f * v for a number f
Vector_mul(v, f) == Vector(fmul(v.x, IntToFloat(f)), fmul(v.y, IntToFloat(f)))
\* v / f for a number f
Vector_truediv(v, f) == Vector(fdiv(v.x, IntToFloat(f)), fdiv(v.y, IntToFloat(f)))

\* Vector.from_ft_f26_6: coord_from = i / (1 << 6)
from_ft_f26_6(p) ==
    Vector(fdiv(IntToFloat(p.x), IntToFloat(Pow2(F26_6_SHIFT))),
           fdiv(IntToFloat(p.y), IntToFloat(Pow2(F26_6_SHIFT))))
\* Vector.from_ft_int: coord_from = float(i)
from_ft_int(p) == Vector(IntToFloat(p.x), IntToFloat(p.y))

(* ------------------------------ FT.Outline ---------------------------- *)

FTVector(x, y) == [x |-> x, y |-> y]

\* the point arrays (26.6 fixed point) outlines are built from: an outline
\* of np points takes the first np points of one of them
PointRows ==
    { << FTVector(0, 0), FTVector(256, 256), FTVector(512, 0), FTVector(768, 0),
         FTVector(768, 512), FTVector(256, 768), FTVector(0, 512), FTVector(-256, 256) >>,
      << FTVector(0, 0), FTVector(320, 320), FTVector(640, 0), FTVector(640, 640),
         FTVector(192, 448), FTVector(0, 640), FTVector(-320, 320), FTVector(-128, 64) >>,
      << FTVector(1, 2), FTVector(33, 71), FTVector(130, 5), FTVector(77, 160),
         FTVector(10, 90), FTVector(201, 13), FTVector(0, 0), FTVector(55, 55) >> }

\* the C arrays are indexed from 0
Pt(o, i) == o.points[i + 1]
Tag(o, i) == o.tags[i + 1]
EndOf(o, k) == o.contours[k + 1]

\* the FT.Outline with np points taken from row, these tags and contour ends
Outline(np, row, ts, ends) ==
    [n_contours |-> Len(ends), n_points |-> np,
     points |-> [i \in 1 .. np |-> row[i]], tags |-> ts, contours |-> ends]

\* strictly increasing end indices, the last one np - 1: what the font
\* engine hands out
WellFormedEnds(np) ==
    { e \in UNION { [1 .. k -> 0 .. np - 1] : k \in 1 .. MaxContours } :
        /\ e[Len(e)] = np - 1
        /\ \A i \in 1 .. Len(e) - 1 : e[i] < e[i + 1] }

FirstOf(o, k) == IF k = 0 THEN 0 ELSE EndOf(o, k - 1) + 1

\* an outline given to FT_Outline_Decompose: well formed, every contour
\* starting with an on-curve point
DecomposeOutline(o) ==
    \E np \in 1 .. MaxPoints, row \in PointRows :
       \E ends \in WellFormedEnds(np),
          ts \in [1 .. np -> {CURVEPT_ON, CURVEPT_OFF2, CURVEPT_OFF3}] :
          /\ ts[1] = CURVEPT_ON
          /\ \A k \in 1 .. Len(ends) - 1 : ts[ends[k] + 2] = CURVEPT_ON
          /\ o = Outline(np, row, ts, ends)

(* ------------------- the font engine's decomposer --------------------- *)
(* FT_Outline_Decompose walks each contour and reports one segment per    *)
(* callback.  Its cursor: n, the contour being walked; first, the index   *)
(* of that contour's first point; p, the last point consumed; st, "start" *)
(* before the contour's move, "walk" after an on-curve end point, "conic" *)
(* when point p is a quadratic control point still to be reported.        *)

Cursor(n, first, p, st) == [n |-> n, first |-> first, p |-> p, st |-> st]

Segment(kind, pts, next) == [kind |-> kind, pts |-> pts, next |-> next, sts |-> 0]
\* the walk is over, with this status
Ended(sts) == [kind |-> "end", pts |-> <<>>, next |-> Cursor(0, 0, 0, "start"), sts |-> sts]

\* the implied on-curve point between two adjacent quadratic control points
Midpoint(a, b) == FTVector((a.x + b.x) \div 2, (a.y + b.y) \div 2)

\* the contour is closed: go on with the next one
NextContour(c, last) == Cursor(c.n + 1, last + 1, last + 1, "start")

\* point ctl is a quadratic control point
ConicSegment(o, c, last, ctl) ==
    IF ctl < last
    THEN IF Tag(o, ctl + 1) = CURVEPT_ON
         THEN Segment("conic", <<Pt(o, ctl), Pt(o, ctl + 1)>>,
                      Cursor(c.n, c.first, ctl + 1, "walk"))
         ELSE IF Tag(o, ctl + 1) = CURVEPT_OFF2
         THEN Segment("conic", <<Pt(o, ctl), Midpoint(Pt(o, ctl), Pt(o, ctl + 1))>>,
                      Cursor(c.n, c.first, ctl + 1, "conic"))
         ELSE Ended(Invalid_Outline)
    ELSE Segment("conic", <<Pt(o, ctl), Pt(o, c.first)>>, NextContour(c, last))

\* points p + 1 and p + 2 must be the two control points of a cubic
CubicSegment(o, c, last) ==
    IF c.p + 2 > last \/ Tag(o, c.p + 2) # CURVEPT_OFF3
    THEN Ended(Invalid_Outline)
    ELSE IF c.p + 3 <= last
    THEN Segment("cubic", <<Pt(o, c.p + 1), Pt(o, c.p + 2), Pt(o, c.p + 3)>>,
                 Cursor(c.n, c.first, c.p + 3, "walk"))
    ELSE Segment("cubic", <<Pt(o, c.p + 1), Pt(o, c.p + 2), Pt(o, c.first)>>,
                 NextContour(c, last))

\* the next segment FT_Outline_Decompose reports from cursor c, or the end
NativeNext(o, c) ==
    IF c.n >= o.n_contours THEN Ended(0)
    ELSE LET last == EndOf(o, c.n) IN
         CASE c.st = "start" ->
                Segment("move", <<Pt(o, c.first)>>, Cursor(c.n, c.first, c.first, "walk"))
           [] c.st = "conic" -> ConicSegment(o, c, last, c.p)
           [] OTHER ->
                IF c.p >= last
                THEN Segment("line", <<Pt(o, c.first)>>, NextContour(c, last))
                ELSE IF Tag(o, c.p + 1) = CURVEPT_ON
                THEN Segment("line", <<Pt(o, c.p + 1)>>,
                             Cursor(c.n, c.first, c.p + 1, "walk"))
                ELSE IF Tag(o, c.p + 1) = CURVEPT_OFF2
                THEN ConicSegment(o, c, last, c.p + 1)
                ELSE CubicSegment(o, c, last)

(* -------------------------------- state ------------------------------- *)

VARIABLES
    ftobj,          \* the FT.Outline the Outline object wraps
    mode,           \* "decompose", "draw" (freetype2.py) or "draw1" (freetype.py)
    conic_to,       \* decompose's conic_to argument: "None" or "user"
    pos0,           \* the tracked current point of decompose / draw
    cur,            \* the cursor of FT_Outline_Decompose
    nsts,           \* the status the last callback returned to FT_Outline_Decompose
    segs,           \* the segments reported so far, each with the status returned
    calls,          \* the calls of the caller's actions made so far
    gcalls,         \* the calls made on the cairo context g
    outcome,        \* "running", "returned" or "raised"
    exc,            \* the code of the FTException raised
    pointindex,     \* Outline.contours: index of the point looked at
    contourindex,   \* Outline.contours: index of the contour being collected
    contour,        \* Outline.contours: the points collected for this contour
    result,         \* Outline.contours: the contours collected
    cstate,         \* Outline.contours: "idle", "for", "while", "returned", "raised"
    retval,         \* Outline.contours: the tuple returned
    cexc,           \* Outline.contours: the exception raised, "" for none
    ncall,          \* decompose: the number of the call being made on the outline
    prev,           \* decompose: what each earlier call on the outline emitted
    tid,            \* decompose: the thread whose call is running, 1 or 2
    suspended,      \* decompose: the call of the other thread, not running now
    alone,          \* decompose: what the call of each thread emits when run alone
    default_lib,    \* the module's global default Library, NoLib for None
    got_lib_instances, \* the module's flag: a Library has been constructed
    libs,           \* the Library objects constructed so far, with how
    lib_log,        \* the Library() and get_default_lib() calls made, with results
    natives,        \* the font engine's glyphs: format, and whether still allocated
    cells,          \* the ctypes FT.Glyph objects: the glyph handle each one holds
    glyph_ftobj,    \* the Glyph objects: the FT.Glyph object each has as _ftobj
    glyph_log,      \* the to_bitmap / stroke / stroke_border calls made
    done_glyphs,    \* the glyph handles passed to FT_Done_Glyph, in order
    that,           \* Outline._append: the FT.Outline being appended
    before,         \* Outline._append: the receiver's FT.Outline before the call
    astate,         \* Outline._append: "idle", "appended" or "FTException"
    bitmap,         \* Bitmap.to_array: the FT.Bitmap, rows, pitch and buffer
    pitch_arg,      \* Bitmap.to_array: the pitch argument, <<>> for None
    buffer,         \* Bitmap.to_array: the array returned
    bstate,         \* Bitmap.to_array: "idle", "returned" or the exception raised
    size_args,      \* Face.set_char_size: the arguments, each <<>> for None
    native,         \* Face.set_char_size: the calls of FT_Set_Char_Size made
    sstate,         \* Face.set_char_size: "idle", "returned" or the exception raised
    lib_alive,      \* finalizers: the Library object has not gone away
    wrappers,       \* finalizers: the Face, Outline, Bitmap and Stroker objects
    sfnt,           \* Face.load_sfnt_table: arguments, locals, the table's length, state
    sfnt_calls,     \* Face.load_sfnt_table: the calls of FT_Load_Sfnt_Table made
    marshal         \* to_ft / from_ft: the object given, its FT form, the object got back

decompose_vars == <<mode, conic_to, pos0, cur, nsts, segs, calls, gcalls, outcome, exc>>
contours_vars == <<pointindex, contourindex, contour, result, cstate, retval, cexc>>
call_vars == <<ncall, prev, tid, suspended, alone>>
library_vars == <<default_lib, got_lib_instances, libs, lib_log>>
outline_vars == <<ftobj, decompose_vars, contours_vars, call_vars>>
glyph_vars == <<natives, cells, glyph_ftobj, glyph_log, done_glyphs>>
append_vars == <<that, before, astate>>
bitmap_vars == <<bitmap, pitch_arg, buffer, bstate>>
size_vars == <<size_args, native, sstate>>
final_vars == <<lib_alive, wrappers>>
\* the state of the operations taken up last
sfnt_vars == <<sfnt, sfnt_calls>>
later_vars == <<final_vars, sfnt_vars, marshal>>
object_vars ==
    <<library_vars, glyph_vars, append_vars, bitmap_vars, size_vars, later_vars>>
\* the state the outline operations leave alone
other_vars == <<call_vars, object_vars>>
\* the state the Library operations leave alone
not_library_vars ==
    <<outline_vars, glyph_vars, append_vars, bitmap_vars, size_vars, later_vars>>
\* the state the Glyph operations leave alone
not_glyph_vars ==
    <<outline_vars, library_vars, append_vars, bitmap_vars, size_vars, later_vars>>
\* the state Outline.append and Stroker.export leave alone
not_append_vars ==
    <<decompose_vars, contours_vars, call_vars, library_vars, glyph_vars, bitmap_vars,
      size_vars, later_vars>>
\* the state Bitmap.to_array leaves alone
not_bitmap_vars ==
    <<outline_vars, library_vars, glyph_vars, append_vars, size_vars, later_vars>>
\* the state Face.set_char_size leaves alone
not_size_vars ==
    <<ftobj, conic_to, pos0, cur, nsts, segs, calls, gcalls, outcome, exc, contours_vars,
      call_vars, library_vars, glyph_vars, append_vars, bitmap_vars, later_vars>>
vars == <<ftobj, decompose_vars, contours_vars, other_vars>>

(* ------------------- Outline.decompose, freetype2.py ------------------ *)

\* the statuses an action passed to decompose may return
Statuses == 0 .. MaxStatus

\* ConicControl1 with the factor 1/3 in place of 2/3
ConicControl1_OneThird(p0, midpos) ==
    Vector_add(p0, Vector_truediv(Vector_sub(midpos, p0), 3))

\* the first control point of the cubic for a conic that starts at p0
ConicControl1(p0, midpos) ==
    Vector_add(p0, Vector_truediv(Vector_mul(Vector_sub(midpos, p0), 2), 3))
\* the second control point of the cubic for a conic that ends at pos3
ConicControl2(pos3, midpos) ==
    Vector_add(pos3, Vector_truediv(Vector_mul(Vector_sub(midpos, pos3), 2), 3))

Call(fn, args) == [fn |-> fn, args |-> args]

\* pos0 after wrap_move_to and wrap_line_to
wrap_point_pos0(c_to, p0, pos) == IF c_to = "None" THEN pos ELSE p0

\* wrap_line_to_call calling move_to
wrap_line_to_call_AsMove(pos) == Call("move_to", <<pos>>)

\* the calls wrap_move_to and wrap_line_to make
wrap_move_to_call(pos) == Call("move_to", <<pos>>)
wrap_line_to_call(pos) == Call("line_to", <<pos>>)

\* wrap_conic_to_call handing the end point over as the control point
wrap_conic_to_call_Swapped(c_to, p0, qpos1, qpos2) ==
    IF c_to # "None"
    THEN Call("conic_to", <<from_ft_f26_6(qpos2), from_ft_f26_6(qpos1)>>)
    ELSE LET midpos == from_ft_f26_6(qpos1)
             pos3 == from_ft_f26_6(qpos2)
         IN  Call("cubic_to",
                  <<Vector_add(p0, Vector_truediv(Vector_mul(Vector_sub(midpos, p0), 2), 3)),
                    Vector_add(pos3, Vector_truediv(Vector_mul(Vector_sub(midpos, pos3), 2), 3)),
                    pos3>>)

\* the call wrap_conic_to makes
wrap_conic_to_call(c_to, p0, qpos1, qpos2) ==
    IF c_to # "None"
    THEN Call("conic_to", <<from_ft_f26_6(qpos1), from_ft_f26_6(qpos2)>>)
    ELSE LET midpos == from_ft_f26_6(qpos1)
             pos3 == from_ft_f26_6(qpos2)
         IN  Call("cubic_to",
                  <<ConicControl1(p0, midpos), ConicControl2(pos3, midpos), pos3>>)

\* pos0 after wrap_conic_to
wrap_conic_to_pos0(c_to, p0, qpos1, qpos2) ==
    IF c_to # "None" THEN p0
    ELSE ConicControl2(from_ft_f26_6(qpos2), from_ft_f26_6(qpos1))

\* wrap_cubic_to_call with the two control points exchanged
wrap_cubic_to_call_Swapped(pos1, pos2, pos3) ==
    Call("cubic_to", <<from_ft_f26_6(pos2), from_ft_f26_6(pos1), from_ft_f26_6(pos3)>>)

\* the call wrap_cubic_to makes
wrap_cubic_to_call(pos1, pos2, pos3) ==
    Call("cubic_to", <<from_ft_f26_6(pos1), from_ft_f26_6(pos2), from_ft_f26_6(pos3)>>)

\* pos0 after wrap_cubic_to: not assigned
wrap_cubic_to_pos0(p0, pos1, pos2, pos3) == p0

\* wrap_return reporting success whatever the action returned
wrap_return_Success(sts) == 0

\* what a wrapper returns to FT_Outline_Decompose, given the action's status
wrap_return(sts) == sts

(* ---------------------- Outline.draw, freetype2.py --------------------- *)

\* draw's conic_to argument to decompose
draw_conic_to == "None"

\* the calls on the cairo context g
g_move_to(x, y) == Call("move_to", <<x, y>>)
g_line_to(x, y) == Call("line_to", <<x, y>>)
g_curve_to(x1, y1, x2, y2, x3, y3) == Call("curve_to", <<x1, y1, x2, y2, x3, y3>>)

\* draw_curve_to calling g.rel_curve_to
draw_curve_to_Rel(pos1, pos2, pos3) ==
    Call("rel_curve_to", <<pos1.x, pos1.y, pos2.x, pos2.y, pos3.x, pos3.y>>)

\* the actions draw passes to decompose
draw_move_to(pos) == g_move_to(pos.x, pos.y)
draw_line_to(pos) == g_line_to(pos.x, pos.y)
draw_curve_to(pos1, pos2, pos3) ==
    g_curve_to(pos1.x, pos1.y, pos2.x, pos2.y, pos3.x, pos3.y)

\* the call on g made by the action draw passes for slot fn
draw_action(fn, args) ==
    CASE fn = "move_to" -> draw_move_to(args[1])
      [] fn = "line_to" -> draw_line_to(args[1])
      [] OTHER -> draw_curve_to(args[1], args[2], args[3])

\* the statuses the action called can return: draw's own return 0, the
\* caller's may return anything
ActionStatuses == IF mode = "draw" THEN {0} ELSE Statuses

\* the action for slot fn is called and returns sts
CallAction(call, sts) ==
    /\ calls' = Append(calls, [fn |-> call.fn, args |-> call.args, sts |-> sts])
    /\ gcalls' = IF mode = "draw"
                 THEN Append(gcalls, draw_action(call.fn, call.args))
                 ELSE gcalls

\* FT_Outline_Decompose takes the callback's status: it goes on after 0 and
\* stops at anything else
Report(s, ret) ==
    /\ segs' = Append(segs, [kind |-> s.kind, pts |-> s.pts, ret |-> ret])
    /\ nsts' = ret
    /\ cur' = IF ret = 0 THEN s.next ELSE cur

Running == outcome = "running" /\ nsts = 0

wrap_move_to ==
    /\ Running /\ mode \in {"decompose", "draw"}
    /\ LET s == NativeNext(ftobj, cur)
           pos == from_ft_f26_6(s.pts[1])
       IN  /\ s.kind = "move"
           /\ pos0' = wrap_point_pos0(conic_to, pos0, pos)
           /\ \E sts \in ActionStatuses :
                 /\ CallAction(wrap_move_to_call(pos), sts)
                 /\ Report(s, wrap_return(sts))
    /\ UNCHANGED <<ftobj, mode, conic_to, outcome, exc, contours_vars, other_vars>>

wrap_line_to ==
    /\ Running /\ mode \in {"decompose", "draw"}
    /\ LET s == NativeNext(ftobj, cur)
           pos == from_ft_f26_6(s.pts[1])
       IN  /\ s.kind = "line"
           /\ pos0' = wrap_point_pos0(conic_to, pos0, pos)
           /\ \E sts \in ActionStatuses :
                 /\ CallAction(wrap_line_to_call(pos), sts)
                 /\ Report(s, wrap_return(sts))
    /\ UNCHANGED <<ftobj, mode, conic_to, outcome, exc, contours_vars, other_vars>>

wrap_conic_to ==
    /\ Running /\ mode \in {"decompose", "draw"}
    /\ LET s == NativeNext(ftobj, cur) IN
           /\ s.kind = "conic"
           /\ pos0' = wrap_conic_to_pos0(conic_to, pos0, s.pts[1], s.pts[2])
           /\ \E sts \in ActionStatuses :
                 /\ CallAction(wrap_conic_to_call(conic_to, pos0, s.pts[1], s.pts[2]), sts)
                 /\ Report(s, wrap_return(sts))
    /\ UNCHANGED <<ftobj, mode, conic_to, outcome, exc, contours_vars, other_vars>>

wrap_cubic_to ==
    /\ Running /\ mode \in {"decompose", "draw"}
    /\ LET s == NativeNext(ftobj, cur) IN
           /\ s.kind = "cubic"
           /\ pos0' = wrap_cubic_to_pos0(pos0, s.pts[1], s.pts[2], s.pts[3])
           /\ \E sts \in ActionStatuses :
                 /\ CallAction(wrap_cubic_to_call(s.pts[1], s.pts[2], s.pts[3]), sts)
                 /\ Report(s, wrap_return(sts))
    /\ UNCHANGED <<ftobj, mode, conic_to, outcome, exc, contours_vars, other_vars>>

\* check(sts) raises FTException(sts) unless sts is 0
check_raises(sts) == sts # 0

\* the status FT_Outline_Decompose ends with: the first status a callback
\* returned that is not 0, else its own
NativeStatus(s) == IF nsts # 0 THEN nsts ELSE s.sts

\* FT_Outline_Decompose has returned: check(...) of its status
decompose_check ==
    /\ outcome = "running"
    /\ LET s == NativeNext(ftobj, cur) IN
           /\ nsts # 0 \/ s.kind = "end"
           /\ nsts' = NativeStatus(s)
           /\ IF check_raises(NativeStatus(s))
              THEN outcome' = "raised" /\ exc' = NativeStatus(s)
              ELSE outcome' = "returned" /\ exc' = exc
    /\ UNCHANGED <<ftobj, mode, conic_to, pos0, cur, segs, calls, gcalls, contours_vars,
                   other_vars>>

(* ----------------------- Outline.draw, freetype.py --------------------- *)
(* The callbacks are handed to FT_Outline_Decompose directly.  They end    *)
(* without a return statement, so the int the callback hands back to the   *)
(* font engine is not set by this code: any status.                        *)

draw1_conic_to_call(p0, qpos1, qpos2) ==
    LET midpos == from_ft_int(qpos1)
        pos3 == from_ft_int(qpos2)
        pos1 == ConicControl1(p0, midpos)
        pos2 == ConicControl2(pos3, midpos)
    IN  g_curve_to(pos1.x, pos1.y, pos2.x, pos2.y, pos3.x, pos3.y)

draw1_cubic_to_call(qpos1, qpos2, qpos3) ==
    LET pos1 == from_ft_int(qpos1)
        pos2 == from_ft_int(qpos2)
        pos3 == from_ft_int(qpos3)
    IN  g_curve_to(pos1.x, pos1.y, pos2.x, pos2.y, pos3.x, pos3.y)

draw1_move_to ==
    /\ Running /\ mode = "draw1"
    /\ LET s == NativeNext(ftobj, cur)
           pos == from_ft_int(s.pts[1])
       IN  /\ s.kind = "move"
           /\ pos0' = pos
           /\ gcalls' = Append(gcalls, g_move_to(pos.x, pos.y))
           /\ \E sts \in Statuses : Report(s, sts)
    /\ UNCHANGED <<ftobj, mode, conic_to, calls, outcome, exc, contours_vars, other_vars>>

draw1_line_to ==
    /\ Running /\ mode = "draw1"
    /\ LET s == NativeNext(ftobj, cur)
           pos == from_ft_int(s.pts[1])
       IN  /\ s.kind = "line"
           /\ pos0' = pos
           /\ gcalls' = Append(gcalls, g_line_to(pos.x, pos.y))
           /\ \E sts \in Statuses : Report(s, sts)
    /\ UNCHANGED <<ftobj, mode, conic_to, calls, outcome, exc, contours_vars, other_vars>>

draw1_conic_to ==
    /\ Running /\ mode = "draw1"
    /\ LET s == NativeNext(ftobj, cur) IN
           /\ s.kind = "conic"
           /\ pos0' = from_ft_int(s.pts[2])
           /\ gcalls' = Append(gcalls, draw1_conic_to_call(pos0, s.pts[1], s.pts[2]))
           /\ \E sts \in Statuses : Report(s, sts)
    /\ UNCHANGED <<ftobj, mode, conic_to, calls, outcome, exc, contours_vars, other_vars>>

draw1_cubic_to ==
    /\ Running /\ mode = "draw1"
    /\ LET s == NativeNext(ftobj, cur) IN
           /\ s.kind = "cubic"
           /\ pos0' = from_ft_int(s.pts[3])
           /\ gcalls' = Append(gcalls, draw1_cubic_to_call(s.pts[1], s.pts[2], s.pts[3]))
           /\ \E sts \in Statuses : Report(s, sts)
    /\ UNCHANGED <<ftobj, mode, conic_to, calls, outcome, exc, contours_vars, other_vars>>

(* --------------------------- the decomposition ------------------------ *)

\* the locals of one call of decompose, with the outline it was called on
\* and what it has done so far
Frame(o, c_to, p0, c, st, sg, cl, oc, e) ==
    [ftobj |-> o, conic_to |-> c_to, pos0 |-> p0, cur |-> c, nsts |-> st,
     segs |-> sg, calls |-> cl, outcome |-> oc, exc |-> e]

\* no call
NoFrame ==
    Frame(Outline(0, <<>>, <<>>, <<>>), "None", None, Cursor(0, 0, 0, "start"),
          0, <<>>, <<>>, "idle", 0)

\* default_lib = None
NoLib == 0

\* the module as imported: "default_lib = None", "got_lib_instances = False"
LibraryIdle ==
    /\ default_lib = NoLib /\ got_lib_instances = FALSE
    /\ libs = <<>> /\ lib_log = <<>>

\* no Glyph object
GlyphIdle ==
    /\ natives = <<>> /\ cells = <<>> /\ glyph_ftobj = <<>> /\ glyph_log = <<>>
    /\ done_glyphs = <<>>

\* nothing is being appended
AppendIdle ==
    /\ that = Outline(0, <<>>, <<>>, <<>>) /\ before = Outline(0, <<>>, <<>>, <<>>)
    /\ astate = "idle"

\* no Bitmap
BitmapIdle ==
    /\ bitmap = [rows |-> 0, pitch |-> 0, buffer |-> <<>>]
    /\ pitch_arg = <<>> /\ buffer = <<>> /\ bstate = "idle"

\* set_char_size(): no argument given
NoArgs ==
    [size |-> <<>>, width |-> <<>>, height |-> <<>>, resolution |-> <<>>,
     horz_resolution |-> <<>>, vert_resolution |-> <<>>]

\* no Face
SizeIdle == size_args = NoArgs /\ native = <<>> /\ sstate = "idle"

\* no Library and no object of one
FinalIdle == lib_alive = FALSE /\ wrappers = <<>>

\* the locals of load_sfnt_table(tag, offset, length) on a table of
\* table_length bytes, before its first statement; None is <<>>
SfntFrame(offset, length, table_length) ==
    [offset |-> offset, length_arg |-> length, length |-> length, c_length |-> 0,
     buffer |-> <<>>, table_length |-> table_length, state |-> "idle"]

\* load_sfnt_table is not called
SfntIdle == sfnt = SfntFrame(0, <<>>, 0) /\ sfnt_calls = <<>>

\* an object to convert to its FT form and back; <<>> is what is not made yet
Marshal(kind, given) ==
    [kind |-> kind, given |-> given, ft |-> <<>>, back |-> <<>>, state |-> "idle"]

\* nothing is converted
MarshalIdle == marshal = Marshal("none", <<>>)

\* the operations taken up last are not under way
LaterIdle == FinalIdle /\ SfntIdle /\ MarshalIdle

\* no object but the outline under study
ObjectsIdle ==
    LibraryIdle /\ GlyphIdle /\ AppendIdle /\ BitmapIdle /\ SizeIdle /\ LaterIdle

\* nothing but the outline under study: one call of decompose, the first on
\* its outline, in one thread
CallsIdle ==
    /\ ncall = 1 /\ prev = <<>> /\ tid = 1 /\ suspended = NoFrame /\ alone = <<>>
    /\ ObjectsIdle

ContoursIdle ==
    /\ pointindex = 0 /\ contourindex = 0 /\ contour = <<>> /\ result = <<>>
    /\ cstate = "idle" /\ retval = <<>> /\ cexc = ""

Init ==
    /\ DecomposeOutline(ftobj)
    /\ mode \in {"decompose", "draw", "draw1"}
    /\ conic_to \in (IF mode = "decompose" THEN {"None", "user"} ELSE {draw_conic_to})
    /\ pos0 = None
    /\ cur = Cursor(0, 0, 0, "start")
    /\ nsts = 0
    /\ segs = <<>> /\ calls = <<>> /\ gcalls = <<>>
    /\ outcome = "running" /\ exc = 0
    /\ ContoursIdle
    /\ CallsIdle

Next ==
    \/ wrap_move_to
    \/ wrap_line_to
    \/ wrap_conic_to
    \/ wrap_cubic_to
    \/ draw1_move_to
    \/ draw1_line_to
    \/ draw1_conic_to
    \/ draw1_cubic_to
    \/ decompose_check

Spec == Init /\ [][Next]_vars

(* ------------------- decompose called again on an outline ------------- *)
(* The same Outline is decomposed / drawn again with the same arguments.  *)
(* gcalls holds the calls made on g by the call in progress.              *)

\* decompose_pos0 with the tracked point an earlier call left behind
decompose_pos0_Kept(p0) == p0

\* "pos0 = None" at the head of decompose and of the draw of freetype.py;
\* p0 is what an earlier call left in its own pos0
decompose_pos0(p0) == None

\* what the call in progress has emitted: the calls of the caller's actions
\* for decompose, the calls on g for draw
Emitted ==
    [i \in 1 .. Len(segs) |->
        IF mode = "decompose" THEN Call(calls[i].fn, calls[i].args) ELSE gcalls[i]]

\* the statuses the callbacks of the call in progress handed back
Returned == [i \in 1 .. Len(segs) |-> segs[i].ret]

\* the call has ended; the next call on the same outline begins
decompose_again ==
    /\ outcome \in {"returned", "raised"} /\ ncall < MaxCalls
    /\ prev' = Append(prev, [emitted |-> Emitted, rets |-> Returned,
                             outcome |-> outcome, exc |-> exc])
    /\ ncall' = ncall + 1
    /\ pos0' = decompose_pos0(pos0)
    /\ cur' = Cursor(0, 0, 0, "start")
    /\ nsts' = 0
    /\ segs' = <<>> /\ calls' = <<>> /\ gcalls' = <<>>
    /\ outcome' = "running" /\ exc' = 0
    /\ UNCHANGED <<ftobj, mode, conic_to, tid, suspended, alone, contours_vars, object_vars>>

\* the outlines decomposed more than once
InitAgain == Init /\ ftobj.n_points <= MaxAgainPoints

NextAgain ==
    \/ wrap_move_to
    \/ wrap_line_to
    \/ wrap_conic_to
    \/ wrap_cubic_to
    \/ draw1_move_to
    \/ draw1_line_to
    \/ draw1_conic_to
    \/ draw1_cubic_to
    \/ decompose_check
    \/ decompose_again

SpecAgain == InitAgain /\ [][NextAgain]_vars

(* ------------------ decompose called in two threads ------------------- *)
(* Two threads each call decompose on an outline of their own.  The font  *)
(* engine runs without the interpreter lock, so the callbacks of the two  *)
(* calls run in any order.  The state holds the call of the thread that   *)
(* is running; the other thread's call is kept in suspended.              *)

\* the call of the running thread
RunningFrame == Frame(ftobj, conic_to, pos0, cur, nsts, segs, calls, outcome, exc)

\* switch_pos0 with one tracked point for all calls
switch_pos0_Shared(mine, theirs) == mine

\* pos0 as the resumed call finds it: the cell of its own call of decompose
\* ("nonlocal pos0"), theirs, not the one of the call being suspended
switch_pos0(mine, theirs) == theirs

\* between two callbacks the other thread's call goes on
switch_thread ==
    /\ suspended.outcome = "running"
    /\ suspended' = RunningFrame
    /\ tid' = 3 - tid
    /\ ftobj' = suspended.ftobj
    /\ conic_to' = suspended.conic_to
    /\ pos0' = switch_pos0(pos0, suspended.pos0)
    /\ cur' = suspended.cur
    /\ nsts' = suspended.nsts
    /\ segs' = suspended.segs
    /\ calls' = suspended.calls
    /\ outcome' = suspended.outcome
    /\ exc' = suspended.exc
    /\ UNCHANGED <<mode, gcalls, ncall, prev, alone, contours_vars, object_vars>>

\* the calls a call of decompose on o makes when it runs alone, from cursor
\* c with the tracked point p0, as long as every action returns 0
RECURSIVE SoloCalls(_, _, _, _)
SoloCalls(o, c_to, p0, c) ==
    LET s == NativeNext(o, c) IN
    CASE s.kind = "move" ->
           <<wrap_move_to_call(from_ft_f26_6(s.pts[1]))>>
             \o SoloCalls(o, c_to, wrap_point_pos0(c_to, p0, from_ft_f26_6(s.pts[1])), s.next)
      [] s.kind = "line" ->
           <<wrap_line_to_call(from_ft_f26_6(s.pts[1]))>>
             \o SoloCalls(o, c_to, wrap_point_pos0(c_to, p0, from_ft_f26_6(s.pts[1])), s.next)
      [] s.kind = "conic" ->
           <<wrap_conic_to_call(c_to, p0, s.pts[1], s.pts[2])>>
             \o SoloCalls(o, c_to, wrap_conic_to_pos0(c_to, p0, s.pts[1], s.pts[2]), s.next)
      [] s.kind = "cubic" ->
           <<wrap_cubic_to_call(s.pts[1], s.pts[2], s.pts[3])>>
             \o SoloCalls(o, c_to, wrap_cubic_to_pos0(p0, s.pts[1], s.pts[2], s.pts[3]), s.next)
      [] OTHER -> <<>>

\* the outlines the second thread decomposes, on the first point array: two
\* conics in a row, and a cubic
OtherOutlines ==
    { Outline(4, row, ts, <<3>>) :
        row \in {r \in PointRows : r[2] = FTVector(256, 256)},
        ts \in { <<CURVEPT_ON, CURVEPT_OFF2, CURVEPT_OFF2, CURVEPT_ON>>,
                 <<CURVEPT_ON, CURVEPT_OFF3, CURVEPT_OFF3, CURVEPT_ON>> } }

InitThreads ==
    /\ DecomposeOutline(ftobj) /\ ftobj.n_points <= MaxThreadPoints
    /\ mode = "decompose"
    /\ conic_to \in {"None", "user"}
    /\ pos0 = None
    /\ cur = Cursor(0, 0, 0, "start")
    /\ nsts = 0
    /\ segs = <<>> /\ calls = <<>> /\ gcalls = <<>>
    /\ outcome = "running" /\ exc = 0
    /\ ncall = 1 /\ prev = <<>> /\ tid = 1
    /\ ObjectsIdle
    /\ \E o \in OtherOutlines :
          /\ o # ftobj
          /\ suspended = Frame(o, "None", None, Cursor(0, 0, 0, "start"),
                               0, <<>>, <<>>, "running", 0)
          /\ alone = <<SoloCalls(ftobj, conic_to, None, Cursor(0, 0, 0, "start")),
                       SoloCalls(o, "None", None, Cursor(0, 0, 0, "start"))>>
    /\ ContoursIdle

NextThreads ==
    \/ wrap_move_to
    \/ wrap_line_to
    \/ wrap_conic_to
    \/ wrap_cubic_to
    \/ decompose_check
    \/ switch_thread

SpecThreads == InitThreads /\ [][NextThreads]_vars

(* --------------------------- Outline.contours ------------------------- *)
(* mode "contours" is the property of freetype2.py, "contours1" the one   *)
(* of freetype.py.  The outline may be malformed here: any end indices.   *)

\* the tag bytes that go with the point rows
TagRows ==
    { <<1, 0, 2, 3, 37, 255, 128, 66>>,
      <<0, 1, 1, 34, 2, 3, 225, 1>>,
      <<33, 2, 2, 1, 0, 0, 3, 129>> }

ContoursOutline(o) ==
    \E np \in 0 .. MaxPoints, row \in PointRows, tagrow \in TagRows, k \in 0 .. MaxContours :
       \E ends \in [1 .. k -> -1 .. np] :
          o = Outline(np, row, [i \in 1 .. np |-> tagrow[i]], ends)

\* flag & 3
pt_type_of(flag) == flag % 4
\* x >> k of Python's unbounded integers, x >= 0
RECURSIVE ShiftRight(_, _)
ShiftRight(x, k) == IF k = 0 \/ x = 0 THEN x ELSE ShiftRight(x \div 2, k - 1)

\* flag >> 32
dropout_flags_of(flag) == ShiftRight(flag, 32)

\* freetype.py looks the point type up among the CURVEPT members
IsCURVEPT(pt_type) == pt_type \in {CURVEPT_ON, CURVEPT_OFF2, CURVEPT_OFF3}

\* the coordinate conversion each module uses
contours_coord(point) ==
    IF mode = "contours1" THEN from_ft_int(point) ELSE from_ft_f26_6(point)

\* the triple appended for point pi
contours_triple(o, pi) ==
    <<contours_coord(Pt(o, pi)), pt_type_of(Tag(o, pi)), dropout_flags_of(Tag(o, pi))>>

\* "if pointindex == ftobj.n_points"
contours_overrun(pi, o) == pi = o.n_points

\* contours_raise leaving the loops and returning what has been collected
contours_raise_Truncating(e) ==
    /\ cstate' = "returned" /\ retval' = Append(result, contour)
    /\ UNCHANGED <<pointindex, contourindex, contour, result, cexc>>

\* raise e: the property ends with nothing returned
contours_raise(e) ==
    /\ cstate' = "raised" /\ cexc' = e
    /\ UNCHANGED <<pointindex, contourindex, contour, result, retval>>

\* reading self.contours starts the loop over the contours
contours_begin ==
    /\ cstate = "idle"
    /\ cstate' = "for"
    /\ result' = <<>> /\ pointindex' = 0 /\ contourindex' = 0
    /\ UNCHANGED <<ftobj, other_vars, decompose_vars, contour, retval, cexc>>

\* the head of "for contourindex in range(n_contours)"
contours_for ==
    /\ cstate = "for" /\ contourindex < ftobj.n_contours
    /\ contour' = <<>>
    /\ cstate' = "while"
    /\ UNCHANGED <<ftobj, other_vars, decompose_vars, pointindex, contourindex, result, retval, cexc>>

\* one pass of the "while True" body
contours_while ==
    /\ cstate = "while"
    /\ IF contours_overrun(pointindex, ftobj)
       THEN contours_raise("IndexError")
       ELSE IF mode = "contours1" /\ ~IsCURVEPT(pt_type_of(Tag(ftobj, pointindex)))
       THEN contours_raise("AssertionError")
       ELSE /\ contour' = Append(contour, contours_triple(ftobj, pointindex))
            /\ IF pointindex = EndOf(ftobj, contourindex)
               THEN /\ result' = Append(result, contour')
                    /\ contourindex' = contourindex + 1
                    /\ cstate' = "for"
                    /\ UNCHANGED pointindex
               ELSE /\ pointindex' = pointindex + 1
                    /\ UNCHANGED <<result, contourindex, cstate>>
            /\ UNCHANGED <<retval, cexc>>
    /\ UNCHANGED <<ftobj, other_vars, decompose_vars>>

\* the loop over the contours is over: return tuple(result)
contours_return ==
    /\ cstate = "for" /\ contourindex >= ftobj.n_contours
    /\ retval' = result
    /\ cstate' = "returned"
    /\ UNCHANGED <<ftobj, other_vars, decompose_vars, pointindex, contourindex, contour, result, cexc>>

DecomposeIdle ==
    /\ conic_to = "None" /\ pos0 = None /\ cur = Cursor(0, 0, 0, "start")
    /\ nsts = 0 /\ segs = <<>> /\ calls = <<>> /\ gcalls = <<>>
    /\ outcome = "idle" /\ exc = 0

InitContours ==
    /\ ContoursOutline(ftobj)
    /\ mode \in {"contours", "contours1"}
    /\ DecomposeIdle
    /\ ContoursIdle
    /\ CallsIdle

NextContours ==
    \/ contours_begin
    \/ contours_for
    \/ contours_while
    \/ contours_return

SpecContours == InitContours /\ [][NextContours]_vars

(* ---------------------- Library, get_default_lib ---------------------- *)
(* libs[k] is "direct" for a Library the caller constructed and "default" *)
(* for the one get_default_lib constructed; default_lib is its index.     *)

\* what a call leaves in lib_log
LibCall(op, res) == [op |-> op, result |-> res]

\* Library.__init__: "if default_lib != None : raise RuntimeError"
Library_raises(dl) == dl # NoLib

\* get_default_lib_raises letting the default Library be made in any case
get_default_lib_raises_Never(gli) == FALSE

\* get_default_lib, with default_lib None: "if got_lib_instances : raise
\* RuntimeError"
get_default_lib_raises(gli) == gli

\* lib = Library(): sts is what FT_Init_FreeType returns
Library_init ==
    /\ Len(lib_log) < MaxLibCalls
    /\ \E sts \in Statuses :
          IF Library_raises(default_lib)
          THEN /\ lib_log' = Append(lib_log, LibCall("Library", "RuntimeError"))
               /\ UNCHANGED <<default_lib, got_lib_instances, libs>>
          ELSE IF check_raises(sts)
          THEN /\ lib_log' = Append(lib_log, LibCall("Library", "FTException"))
               /\ UNCHANGED <<default_lib, got_lib_instances, libs>>
          ELSE /\ got_lib_instances' = TRUE
               /\ libs' = Append(libs, "direct")
               /\ lib_log' = Append(lib_log, LibCall("Library", "returned"))
               /\ UNCHANGED default_lib
    /\ UNCHANGED not_library_vars

\* get_default_lib(): sts is what FT_Init_FreeType returns, if it is called
get_default_lib ==
    /\ Len(lib_log) < MaxLibCalls
    /\ \E sts \in Statuses :
          IF default_lib # NoLib
          THEN /\ lib_log' = Append(lib_log, LibCall("get_default_lib", "returned"))
               /\ UNCHANGED <<default_lib, got_lib_instances, libs>>
          ELSE IF get_default_lib_raises(got_lib_instances)
          THEN /\ lib_log' = Append(lib_log, LibCall("get_default_lib", "RuntimeError"))
               /\ UNCHANGED <<default_lib, got_lib_instances, libs>>
          \* default_lib = Library(): default_lib is still None in __init__
          ELSE IF Library_raises(default_lib)
          THEN /\ lib_log' = Append(lib_log, LibCall("get_default_lib", "RuntimeError"))
               /\ UNCHANGED <<default_lib, got_lib_instances, libs>>
          ELSE IF check_raises(sts)
          THEN /\ lib_log' = Append(lib_log, LibCall("get_default_lib", "FTException"))
               /\ UNCHANGED <<default_lib, got_lib_instances, libs>>
          ELSE /\ got_lib_instances' = TRUE
               /\ libs' = Append(libs, "default")
               /\ default_lib' = Len(libs) + 1
               /\ lib_log' = Append(lib_log, LibCall("get_default_lib", "returned"))
    /\ UNCHANGED not_library_vars

\* the other operations are not under way
OutlineIdle ==
    /\ ftobj = Outline(0, <<>>, <<>>, <<>>) /\ mode = "none"
    /\ DecomposeIdle /\ ContoursIdle
    /\ ncall = 1 /\ prev = <<>> /\ tid = 1 /\ suspended = NoFrame /\ alone = <<>>

InitLibrary ==
    /\ LibraryIdle /\ OutlineIdle /\ GlyphIdle /\ AppendIdle /\ BitmapIdle /\ SizeIdle
    /\ LaterIdle

NextLibrary ==
    \/ Library_init
    \/ get_default_lib

SpecLibrary == InitLibrary /\ [][NextLibrary]_vars

(* ------------- Glyph.to_bitmap, Stroker.stroke, stroke_border --------- *)
(* A Glyph object has an FT.Glyph as _ftobj: a ctypes pointer object,     *)
(* whose buffer (a cell) holds the handle of one of the font engine's     *)
(* glyphs.  "result = ct.pointer(self._ftobj)" points at that very        *)
(* buffer, and the font engine stores the handle of the glyph it made     *)
(* through result; replace only tells it whether to free the glyph it was *)
(* given.  result.contents is an FT.Glyph object on the same buffer.      *)

NativeGlyph(format) == [format |-> format, live |-> TRUE]

\* the glyph handle the Glyph object g holds
Held(g) == cells[glyph_ftobj[g]]

\* "result = None" after a replacing call
NoGlyph == 0

\* "self._ftobj = None"
NoCell == 0

\* the call op(g, replace) has ended: what it found, what it returned
GlyphCall(op, g, replace, held, res, raised) ==
    [op |-> op, glyph |-> g, replace |-> replace, before |-> held,
     result |-> res, raised |-> raised]

\* the body the three methods share; sts is the status of the font engine's
\* function, format the format of the glyph it makes
glyph_convert(op, format, g, replace, sts) ==
    LET c == glyph_ftobj[g]
        old == cells[c]
        new == Len(natives) + 1
    IN  IF check_raises(sts)
        THEN /\ glyph_log' = Append(glyph_log, GlyphCall(op, g, replace, old, NoGlyph, TRUE))
             /\ UNCHANGED <<natives, cells, glyph_ftobj>>
        ELSE /\ natives' = Append([natives EXCEPT ![old].live = ~replace],
                                  NativeGlyph(format))
             \* stored through result, in the buffer of _ftobj
             /\ cells' = [cells EXCEPT ![c] = new]
             /\ IF replace
                THEN \* "self._ftobj = result.contents ; result = None"
                     /\ glyph_ftobj' = [glyph_ftobj EXCEPT ![g] = c]
                     /\ glyph_log' = Append(glyph_log,
                            GlyphCall(op, g, replace, old, NoGlyph, FALSE))
                ELSE \* "result = Glyph(result.contents)"
                     /\ glyph_ftobj' = Append(glyph_ftobj, c)
                     /\ glyph_log' = Append(glyph_log,
                            GlyphCall(op, g, replace, old, Len(glyph_ftobj) + 1, FALSE))

\* the calls are made on Glyph objects not finalized yet, whose glyph is
\* still allocated and holds an outline
GlyphCallable(g) ==
    /\ Len(glyph_log) < MaxGlyphCalls
    /\ glyph_ftobj[g] # NoCell
    /\ natives[Held(g)].live
    /\ natives[Held(g)].format = "outline"

Glyph_to_bitmap ==
    /\ \E g \in 1 .. Len(glyph_ftobj), replace \in BOOLEAN, sts \in Statuses :
          /\ GlyphCallable(g)
          /\ glyph_convert("to_bitmap", "bitmap", g, replace, sts)
    /\ UNCHANGED <<done_glyphs, not_glyph_vars>>

Stroker_stroke ==
    /\ \E g \in 1 .. Len(glyph_ftobj), replace \in BOOLEAN, sts \in Statuses :
          /\ GlyphCallable(g)
          /\ glyph_convert("stroke", "outline", g, replace, sts)
    /\ UNCHANGED <<done_glyphs, not_glyph_vars>>

Stroker_stroke_border ==
    /\ \E g \in 1 .. Len(glyph_ftobj), replace \in BOOLEAN, sts \in Statuses :
          /\ GlyphCallable(g)
          /\ glyph_convert("stroke_border", "outline", g, replace, sts)
    /\ UNCHANGED <<done_glyphs, not_glyph_vars>>

\* two Glyph objects from GlyphSlot.get_glyph, each with an outline glyph
InitGlyph ==
    /\ natives = <<NativeGlyph("outline"), NativeGlyph("outline")>>
    /\ cells = <<1, 2>>
    /\ glyph_ftobj = <<1, 2>>
    /\ glyph_log = <<>>
    /\ done_glyphs = <<>>
    /\ OutlineIdle /\ LibraryIdle /\ AppendIdle /\ BitmapIdle /\ SizeIdle
    /\ LaterIdle

NextGlyph ==
    \/ Glyph_to_bitmap
    \/ Stroker_stroke
    \/ Stroker_stroke_border

SpecGlyph == InitGlyph /\ [][NextGlyph]_vars

(* ------------- GlyphSlot.get_glyph, Glyph.copy, Glyph.__del__ --------- *)
(* The Glyph objects from their construction to their finalization.      *)

\* "result = FT.Glyph()" filled in by the font engine, then "Glyph(result)":
\* a new ctypes object holding the handle of a new glyph
glyph_new(format, sts) ==
    IF check_raises(sts)
    THEN UNCHANGED <<natives, cells, glyph_ftobj>>
    ELSE /\ natives' = Append(natives, NativeGlyph(format))
         /\ cells' = Append(cells, Len(natives) + 1)
         /\ glyph_ftobj' = Append(glyph_ftobj, Len(cells) + 1)

\* GlyphSlot.get_glyph(): FT_Get_Glyph on a slot that holds an outline
GlyphSlot_get_glyph ==
    /\ Len(natives) < MaxNatives
    /\ \E sts \in Statuses : glyph_new("outline", sts)
    /\ UNCHANGED <<glyph_log, done_glyphs, not_glyph_vars>>

\* Glyph.copy(): FT_Glyph_Copy makes a glyph of the same format
Glyph_copy ==
    /\ Len(natives) < MaxNatives
    /\ \E g \in 1 .. Len(glyph_ftobj), sts \in Statuses :
          /\ glyph_ftobj[g] # NoCell
          /\ natives[Held(g)].live
          /\ glyph_new(natives[Held(g)].format, sts)
    /\ UNCHANGED <<glyph_log, done_glyphs, not_glyph_vars>>

\* "if self._ftobj != None" in Glyph.__del__
Glyph_del_disposes(g) == glyph_ftobj[g] # NoCell

\* Glyph.__del__ of the Glyph object g
Glyph_del ==
    /\ \E g \in 1 .. Len(glyph_ftobj) :
          IF Glyph_del_disposes(g)
          THEN \* "ft.FT_Done_Glyph(self._ftobj) ; self._ftobj = None"
               /\ done_glyphs' = Append(done_glyphs, Held(g))
               /\ natives' = [natives EXCEPT ![Held(g)].live = FALSE]
               /\ glyph_ftobj' = [glyph_ftobj EXCEPT ![g] = NoCell]
               /\ UNCHANGED cells
          ELSE UNCHANGED <<natives, cells, glyph_ftobj, done_glyphs>>
    /\ UNCHANGED <<glyph_log, not_glyph_vars>>

\* no Glyph object yet
InitGlyphLife ==
    /\ GlyphIdle
    /\ OutlineIdle /\ LibraryIdle /\ AppendIdle /\ BitmapIdle /\ SizeIdle
    /\ LaterIdle

NextGlyphLife ==
    \/ GlyphSlot_get_glyph
    \/ Glyph_copy
    \/ Glyph_to_bitmap
    \/ Stroker_stroke
    \/ Stroker_stroke_border
    \/ Glyph_del

SpecGlyphLife == InitGlyphLife /\ [][NextGlyphLife]_vars

(* --------------------------- the finalizers --------------------------- *)
(* Face, Outline, Bitmap and Stroker objects keep a weak reference to    *)
(* their Library, _lib, which gives None once the Library has gone away. *)
(* storage says who owns what _ftobj points at: "lib" the object itself, *)
(* under the font engine; "owner" another object (owner is not None);    *)
(* "array" a Python array (buffer is not None).                          *)

\* a wrapper object as constructed: _ftobj is set, no __del__ has run
Wrapper(kind, storage) ==
    [kind |-> kind, storage |-> storage, ftobj |-> TRUE, runs |-> 0, calls |-> 0]

\* the objects the constructors make
WrapperKinds ==
    { Wrapper("Face", "lib"), Wrapper("Stroker", "lib"),
      Wrapper("Outline", "lib"), Wrapper("Outline", "owner"),
      Wrapper("Bitmap", "lib"), Wrapper("Bitmap", "owner"), Wrapper("Bitmap", "array") }

\* "self._lib() != None"
weakref_alive == lib_alive

\* the disposal call is made; with check, a failure leaves _ftobj set
dispose(i, checked, sts) ==
    wrappers' = [wrappers EXCEPT ![i].runs = @ + 1, ![i].calls = @ + 1,
                                 ![i].ftobj = checked /\ check_raises(sts)]

\* __del__ ends without a disposal call
no_dispose(i) == wrappers' = [wrappers EXCEPT ![i].runs = @ + 1]

\* __del__ of wrapper i may run
Finalizable(i, kind) ==
    /\ wrappers[i].kind = kind
    /\ wrappers[i].runs < MaxRuns

\* Library.__del__: FT_Done_FreeType, and the weak references go dead
Library_del ==
    /\ lib_alive
    /\ lib_alive' = FALSE
    /\ UNCHANGED <<wrappers, outline_vars, library_vars, glyph_vars, append_vars,
                   bitmap_vars, size_vars, sfnt_vars, marshal>>

\* Face.__del__
Face_del ==
    /\ \E i \in 1 .. Len(wrappers), sts \in Statuses :
          /\ Finalizable(i, "Face")
          /\ IF wrappers[i].ftobj /\ weakref_alive
             THEN dispose(i, TRUE, sts)
             ELSE no_dispose(i)
    /\ UNCHANGED <<lib_alive, outline_vars, library_vars, glyph_vars, append_vars,
                   bitmap_vars, size_vars, sfnt_vars, marshal>>

\* Outline.__del__
Outline_del ==
    /\ \E i \in 1 .. Len(wrappers), sts \in Statuses :
          /\ Finalizable(i, "Outline")
          /\ IF wrappers[i].storage # "owner" /\ weakref_alive /\ wrappers[i].ftobj
             THEN dispose(i, TRUE, sts)
             ELSE no_dispose(i)
    /\ UNCHANGED <<lib_alive, outline_vars, library_vars, glyph_vars, append_vars,
                   bitmap_vars, size_vars, sfnt_vars, marshal>>

\* Bitmap.__del__.  The Bitmaps of copy and convert were given lib.lib, the
\* ctypes pointer of the Library, as their lib: "self._lib().lib" then
\* raises AttributeError, before any call.
Bitmap_del ==
    /\ \E i \in 1 .. Len(wrappers) :
          /\ Finalizable(i, "Bitmap")
          /\ no_dispose(i)
    /\ UNCHANGED <<lib_alive, outline_vars, library_vars, glyph_vars, append_vars,
                   bitmap_vars, size_vars, sfnt_vars, marshal>>

\* Stroker.__del__
Stroker_del ==
    /\ \E i \in 1 .. Len(wrappers) :
          /\ Finalizable(i, "Stroker")
          /\ IF wrappers[i].ftobj /\ weakref_alive
             THEN dispose(i, FALSE, 0)
             ELSE no_dispose(i)
    /\ UNCHANGED <<lib_alive, outline_vars, library_vars, glyph_vars, append_vars,
                   bitmap_vars, size_vars, sfnt_vars, marshal>>

\* a Library, up to MaxWrappers objects of it, and a Glyph of one of its faces
InitFinal ==
    /\ lib_alive = TRUE
    /\ \E n \in 0 .. MaxWrappers : wrappers \in [1 .. n -> WrapperKinds]
    /\ natives = <<NativeGlyph("outline")>>
    /\ cells = <<1>>
    /\ glyph_ftobj = <<1>>
    /\ glyph_log = <<>>
    /\ done_glyphs = <<>>
    /\ OutlineIdle /\ LibraryIdle /\ AppendIdle /\ BitmapIdle /\ SizeIdle /\ SfntIdle
    /\ MarshalIdle

NextFinal ==
    \/ Library_del
    \/ Face_del
    \/ Outline_del
    \/ Bitmap_del
    \/ Stroker_del
    \/ Glyph_del

SpecFinal == InitFinal /\ [][NextFinal]_vars

(* ------------------------- Face.load_sfnt_table ------------------------ *)
(* One step is one pass of the "while True" body.  The font engine's      *)
(* FT_Load_Sfnt_Table, told a length of 0, stores the length of the table *)
(* in c_length; otherwise it reads c_length bytes of the table, from      *)
(* offset on, to the buffer address it was given.                         *)

\* an array of length items, whatever the offset
load_sfnt_table_size_Whole(length, offset) == IF length > 0 THEN length ELSE 0

\* "(0,) * (length - offset)": the number of items of the array; a tuple
\* times a negative number is empty
load_sfnt_table_size(length, offset) == IF length - offset > 0 THEN length - offset ELSE 0

\* "buffer.buffer_info()[0]": the address of the items, 0 for an empty
\* array; <<>> is the null address, <<n>> the address of n bytes
buffer_info(size) == IF size = 0 THEN <<>> ELSE <<size>>

\* the call FT_Load_Sfnt_Table(face, tag, offset, bufadr, &c_length)
SfntCall(offset, bufadr, count) == [offset |-> offset, bufadr |-> bufadr, count |-> count]

\* the font engine is told to store more bytes than there are at bufadr
Overflows(call) ==
    call.count > (IF call.bufadr = <<>> THEN 0 ELSE call.bufadr[1])

\* what the call can end with: a status, or no return at all when it stores
\* outside the buffer
SfntOutcomes(call) ==
    [sts : Statuses, crashed : {FALSE}]
       \cup (IF Overflows(call) THEN {[sts |-> 0, crashed |-> TRUE]} ELSE {})

\* "assert offset <= length"
load_sfnt_table_assert(offset, length) == offset <= length

\* load_sfnt_table(tag, offset, length) is called: "c_length = ct.c_ulong()"
load_sfnt_table_begin ==
    /\ sfnt.state = "idle"
    /\ sfnt' = [sfnt EXCEPT !.state = "while", !.c_length = 0]
    /\ UNCHANGED <<sfnt_calls, final_vars, outline_vars, library_vars, glyph_vars,
                   append_vars, bitmap_vars, size_vars, marshal>>

\* one pass of the "while True" body
load_sfnt_table_while ==
    /\ sfnt.state = "while"
    /\ IF sfnt.length # <<>> /\ ~load_sfnt_table_assert(sfnt.offset, sfnt.length[1])
       THEN /\ sfnt' = [sfnt EXCEPT !.state = "AssertionError"]
            /\ UNCHANGED sfnt_calls
       ELSE LET size == IF sfnt.length # <<>>
                        THEN load_sfnt_table_size(sfnt.length[1], sfnt.offset)
                        ELSE 0
                bufadr == IF sfnt.length # <<>> THEN buffer_info(size) ELSE <<>>
                count == IF sfnt.length # <<>> THEN sfnt.length[1] ELSE 0
                newbuf == IF sfnt.length # <<>> THEN <<size>> ELSE sfnt.buffer
                call == SfntCall(sfnt.offset, bufadr, count)
            IN  /\ sfnt_calls' = Append(sfnt_calls, call)
                /\ \E out \in SfntOutcomes(call) :
                      LET c_length == IF count = 0 /\ out.sts = 0
                                      THEN sfnt.table_length ELSE count
                      IN  IF out.crashed
                          THEN sfnt' = [sfnt EXCEPT !.state = "crashed", !.buffer = newbuf,
                                                    !.c_length = count]
                          ELSE IF check_raises(out.sts)
                          THEN sfnt' = [sfnt EXCEPT !.state = "FTException",
                                                    !.buffer = newbuf, !.c_length = c_length]
                          ELSE IF sfnt.length # <<>>
                          THEN \* "break", then "return buffer"
                               sfnt' = [sfnt EXCEPT !.state = "returned",
                                                    !.buffer = newbuf, !.c_length = c_length]
                          ELSE \* "length = c_length.value"
                               sfnt' = [sfnt EXCEPT !.length = <<c_length>>,
                                                    !.c_length = c_length]
    /\ UNCHANGED <<final_vars, outline_vars, library_vars, glyph_vars,
                   append_vars, bitmap_vars, size_vars, marshal>>

\* a call with an offset up to MaxOffset and the length None or up to
\* MaxLength, on a table of up to MaxLength bytes
InitSfnt ==
    /\ \E offset \in 0 .. MaxOffset, table_length \in 0 .. MaxLength,
          length \in {<<>>} \cup { <<n>> : n \in 0 .. MaxLength } :
             sfnt = SfntFrame(offset, length, table_length)
    /\ sfnt_calls = <<>>
    /\ OutlineIdle /\ LibraryIdle /\ GlyphIdle /\ AppendIdle /\ BitmapIdle /\ SizeIdle
    /\ FinalIdle /\ MarshalIdle

NextSfnt ==
    \/ load_sfnt_table_begin
    \/ load_sfnt_table_while

SpecSfnt == InitSfnt /\ [][NextSfnt]_vars

\* the call, once made, runs on
SpecSfntFair == SpecSfnt /\ WF_vars(NextSfnt)

(* -------------------- Outline.append, Stroker.export ------------------ *)
(* mode "append": other._ftobj is appended; mode "export": the temporary  *)
(* FT.Outline the stroker has exported its contours to is appended.       *)

\* the FT.Outline _append builds: the arrays of this, then those of that,
\* each copied as it is
Outline_append(this, other) ==
    [n_contours |-> this.n_contours + other.n_contours,
     n_points |-> this.n_points + other.n_points,
     points |-> this.points \o other.points,
     tags |-> this.tags \o other.tags,
     contours |-> this.contours \o other.contours]

\* self._append(that): new_sts is what FT_Outline_New returns, done_sts what
\* FT_Outline_Done returns for the receiver's old FT.Outline
append_body(new_sts, done_sts) ==
    /\ before' = ftobj
    /\ IF check_raises(new_sts) \/ check_raises(done_sts)
       THEN astate' = "FTException" /\ UNCHANGED ftobj
       ELSE astate' = "appended" /\ ftobj' = Outline_append(ftobj, that)
    /\ UNCHANGED that

Outline_append_call ==
    /\ mode = "append" /\ astate = "idle"
    /\ \E new_sts \in Statuses, done_sts \in Statuses : append_body(new_sts, done_sts)
    /\ UNCHANGED not_append_vars

\* temp_sts is what FT_Outline_New returns for the temporary outline
Stroker_export ==
    /\ mode = "export" /\ astate = "idle"
    /\ \E temp_sts \in Statuses, new_sts \in Statuses, done_sts \in Statuses :
          IF check_raises(temp_sts)
          THEN astate' = "FTException" /\ before' = ftobj /\ UNCHANGED <<ftobj, that>>
          ELSE append_body(new_sts, done_sts)
    /\ UNCHANGED not_append_vars

\* a well-formed outline of at most MaxAppendPoints points, possibly empty
AppendOutline(o) ==
    \E np \in 0 .. MaxAppendPoints, row \in PointRows, tagrow \in TagRows :
       \E ends \in (IF np = 0 THEN {<<>>} ELSE WellFormedEnds(np)) :
          o = Outline(np, row, [i \in 1 .. np |-> tagrow[i]], ends)

InitAppend ==
    /\ AppendOutline(ftobj) /\ AppendOutline(that)
    /\ before = Outline(0, <<>>, <<>>, <<>>) /\ astate = "idle"
    /\ mode \in {"append", "export"}
    /\ DecomposeIdle /\ ContoursIdle
    /\ ncall = 1 /\ prev = <<>> /\ tid = 1 /\ suspended = NoFrame /\ alone = <<>>
    /\ LibraryIdle /\ GlyphIdle /\ BitmapIdle /\ SizeIdle /\ LaterIdle

NextAppend ==
    \/ Outline_append_call
    \/ Stroker_export

SpecAppend == InitAppend /\ [][NextAppend]_vars

(* ---------------------------- Bitmap.to_array ------------------------- *)
(* The bitmap's buffer is a sequence of rows * pitch bytes.  Addresses    *)
(* are offsets from the start of the buffer they point into.              *)

\* array.array("B", b"0" * buffer_size): each byte is the character "0"
NewArray(buffer_size) == [k \in 1 .. buffer_size |-> 48]

\* ct.memmove(dst + dstaddr, src + srcaddr, count)
memmove(dst, dstaddr, src, srcaddr, count) ==
    [k \in 1 .. Len(dst) |->
        IF k - dstaddr \in 1 .. count THEN src[srcaddr + k - dstaddr] ELSE dst[k]]

\* to_array_dstaddr stepping by the source pitch
to_array_dstaddr_Packed(dstaddr, pitch, src_pitch) == dstaddr + src_pitch

\* "dstaddr += pitch"
to_array_dstaddr(dstaddr, pitch, src_pitch) == dstaddr + pitch

\* "for i in range(self.rows)": a row at a time, from row i on
RECURSIVE to_array_rows(_, _, _, _, _, _, _, _)
to_array_rows(dst, dstaddr, src, srcaddr, i, rows, pitch, src_pitch) ==
    IF i >= rows THEN dst
    ELSE to_array_rows(memmove(dst, dstaddr, src, srcaddr, src_pitch),
                       to_array_dstaddr(dstaddr, pitch, src_pitch), src,
                       srcaddr + src_pitch, i + 1, rows, pitch, src_pitch)

\* "if pitch == None : pitch = self.pitch"
to_array_pitch(bm, arg) == IF arg = <<>> THEN bm.pitch ELSE arg[1]

\* bitmap.to_array(pitch)
Bitmap_to_array ==
    /\ bstate = "idle"
    /\ LET pitch == to_array_pitch(bitmap, pitch_arg)
           buffer_size == bitmap.rows * pitch
           src_pitch == bitmap.pitch
       IN  IF pitch = src_pitch
           THEN /\ buffer' = memmove(NewArray(buffer_size), 0, bitmap.buffer, 0, buffer_size)
                /\ bstate' = "returned"
           ELSE IF src_pitch < 0 \/ pitch < 0
           THEN buffer' = <<>> /\ bstate' = "NotImplementedError"
           ELSE IF ~(pitch > src_pitch)
           THEN buffer' = <<>> /\ bstate' = "AssertionError"
           ELSE /\ buffer' = to_array_rows(NewArray(buffer_size), 0, bitmap.buffer, 0,
                                           0, bitmap.rows, pitch, src_pitch)
                /\ bstate' = "returned"
    /\ UNCHANGED <<bitmap, pitch_arg, not_bitmap_vars>>

\* the byte at offset k (from 1) of the pixel pattern pat
Pixel(pat, k) == (37 * pat * k + 11 * pat) % 256

\* a bitmap with rows going down (pitch >= 0), as the font engine renders
\* them and as new_with_array makes them, and a pitch argument: None, or
\* anything from -1 to one more than MaxPitch
InitBitmap ==
    /\ \E rows \in 0 .. MaxRows, src_pitch \in 0 .. MaxPitch, pat \in 1 .. 2 :
          bitmap = [rows |-> rows, pitch |-> src_pitch,
                    buffer |-> [k \in 1 .. rows * src_pitch |-> Pixel(pat, k)]]
    /\ pitch_arg \in {<<>>} \cup {<<q>> : q \in -1 .. MaxPitch + 1}
    /\ buffer = <<>> /\ bstate = "idle"
    /\ OutlineIdle /\ LibraryIdle /\ GlyphIdle /\ AppendIdle /\ SizeIdle
    /\ LaterIdle

NextBitmap == Bitmap_to_array

SpecBitmap == InitBitmap /\ [][NextBitmap]_vars

(* --------------------------- Face.set_char_size ----------------------- *)
(* mode "set_char_size" is the method of freetype2.py, "set_char_size1"   *)
(* the one of freetype.py, which has no size and no resolution argument.  *)
(* An argument is <<>> for None and <<v>> for the value v; sizes are      *)
(* floats, resolutions integers.                                          *)

\* Python's round(x) of a float: to the nearest integer, a half to the even one
round(x) ==
    LET q == x[1] \div x[2]
        r == x[1] - q * x[2]
    IN  IF 2 * r < x[2] THEN q
        ELSE IF 2 * r > x[2] THEN q + 1
        ELSE IF q % 2 = 0 THEN q ELSE q + 1

\* to_f26_6 = conv_to of make_fixed_conv(6): round(x * factor)
to_f26_6(x) == round(fmul(x, IntToFloat(Pow2(F26_6_SHIFT))))

\* the assertion of set_char_size in freetype2.py
set_char_size_assert(a) ==
    /\ (a.size # <<>>) # (a.width # <<>> /\ a.height # <<>>)
    /\ (a.resolution # <<>>) # (a.horz_resolution # <<>> /\ a.vert_resolution # <<>>)

\* the assertion of set_char_size in freetype.py
set_char_size1_assert(a) ==
    /\ (a.width # <<>> \/ a.height # <<>>)
    /\ (a.horz_resolution # <<>> \/ a.vert_resolution # <<>>)

\* "if first == None : first = second"
OrElse(first, second) == IF first = <<>> THEN second ELSE first

\* FT_Set_Char_Size(face, char_width, char_height, horz_resolution,
\* vert_resolution): an argument that is None is kept as <<>>
FT_Set_Char_Size(width, height, horz_resolution, vert_resolution) ==
    [char_width |-> IF width = <<>> THEN <<>> ELSE <<to_f26_6(width[1])>>,
     char_height |-> IF height = <<>> THEN <<>> ELSE <<to_f26_6(height[1])>>,
     horz_resolution |-> horz_resolution,
     vert_resolution |-> vert_resolution]

\* the native call made and check() of its status sts
set_char_size_call(call, sts) ==
    /\ native' = Append(native, call)
    /\ sstate' = IF check_raises(sts) THEN "FTException" ELSE "returned"

\* Face.set_char_size of freetype2.py
Face_set_char_size ==
    /\ mode = "set_char_size" /\ sstate = "idle"
    /\ IF ~set_char_size_assert(size_args)
       THEN sstate' = "AssertionError" /\ UNCHANGED native
       ELSE \E sts \in Statuses :
               set_char_size_call(
                   FT_Set_Char_Size(OrElse(size_args.width, size_args.size),
                                    OrElse(size_args.height, size_args.size),
                                    OrElse(size_args.horz_resolution, size_args.resolution),
                                    OrElse(size_args.vert_resolution, size_args.resolution)), sts)
    /\ UNCHANGED <<mode, size_args, not_size_vars>>

\* Face.set_char_size of freetype.py
Face_set_char_size1 ==
    /\ mode = "set_char_size1" /\ sstate = "idle"
    /\ IF ~set_char_size1_assert(size_args)
       THEN sstate' = "AssertionError" /\ UNCHANGED native
       ELSE \E sts \in Statuses :
               set_char_size_call(
                   FT_Set_Char_Size(OrElse(size_args.width, size_args.height),
                                    OrElse(size_args.height, size_args.width),
                                    OrElse(size_args.horz_resolution, size_args.vert_resolution),
                                    OrElse(size_args.vert_resolution, size_args.horz_resolution)), sts)
    /\ UNCHANGED <<mode, size_args, not_size_vars>>

\* the values the arguments are given: sizes in points, as floats
Sizes == {<<12, 1>>, <<21, 2>>, <<3, 128>>}
Widths == {<<10, 1>>}
Heights == {<<11, 1>>, <<5, 128>>}

\* None or one of these values
Optional(values) == {<<>>} \cup {<<v>> : v \in values}

InitSize ==
    /\ mode \in {"set_char_size", "set_char_size1"}
    /\ \E size \in Optional(Sizes), width \in Optional(Widths), height \in Optional(Heights),
          resolution \in Optional({72}), horz_resolution \in Optional({96}),
          vert_resolution \in Optional({300}) :
          /\ mode = "set_char_size1" => (size = <<>> /\ resolution = <<>>)
          /\ size_args = [size |-> size, width |-> width, height |-> height,
                     resolution |-> resolution, horz_resolution |-> horz_resolution,
                     vert_resolution |-> vert_resolution]
    /\ native = <<>> /\ sstate = "idle"
    /\ ftobj = Outline(0, <<>>, <<>>, <<>>)
    /\ DecomposeIdle /\ ContoursIdle
    /\ ncall = 1 /\ prev = <<>> /\ tid = 1 /\ suspended = NoFrame /\ alone = <<>>
    /\ LibraryIdle /\ GlyphIdle /\ AppendIdle /\ BitmapIdle /\ LaterIdle

NextSize ==
    \/ Face_set_char_size
    \/ Face_set_char_size1

SpecSize == InitSize /\ [][NextSize]_vars

(* ----------------- Matrix and Vector to and from FT form --------------- *)
(* An integer beyond the 32 bits of the checker is kept as               *)
(* carry * 2^ULONG_BITS + rest, a float beyond them as                   *)
(* carry * 2^(ULONG_BITS - F16_16_SHIFT) + frac.                         *)

Word(carry, rest) == [carry |-> carry, rest |-> rest]
Big(carry, frac) == [carry |-> carry, frac |-> frac]

\* a field of type FT.Fixed = ct.c_ulong set to i: i modulo 2^ULONG_BITS
c_ulong(i) == IF i < 0 THEN Word(1, i) ELSE Word(0, i)

\* a field of type FT.Pos = ct.c_long set to i: i itself, within the range
c_long(i) == i

\* coord_to / conv_to: round(x * factor), factor = 1 << shift
coord_to(x, shift) == round(fmul(x, IntToFloat(Pow2(shift))))

\* to_f16_16 of a float below 2^15 in size
to_f16_16(x) == coord_to(x.frac, F16_16_SHIFT)

\* the double nearest to carry * 2^48 + frac: exact below 2^37, and to the
\* nearest multiple of 2^-5, a half to the even one, from 2^47 to 2^48
Double(carry, frac) ==
    IF carry = 0 THEN Big(0, frac)
    ELSE Big(carry, Frac(round(fmul(frac, IntToFloat(Pow2(DoubleFracBits)))),
                         Pow2(DoubleFracBits)))

\* from_f16_16 = conv_from of make_fixed_conv(16): i / factor
from_f16_16(i) == Double(i.carry, Frac(i.rest, Pow2(F16_16_SHIFT)))

Matrix(xx, xy, yx, yy) == [xx |-> xx, xy |-> xy, yx |-> yx, yy |-> yy]

\* Matrix.to_ft: FT.Matrix(**args), args[field] = to_f16_16(getattr(self, field))
Matrix_to_ft(self) ==
    Matrix(c_ulong(to_f16_16(self.xx)), c_ulong(to_f16_16(self.xy)),
           c_ulong(to_f16_16(self.yx)), c_ulong(to_f16_16(self.yy)))

\* Matrix.from_ft: Matrix(**args), args[field] = from_f16_16(getattr(mat, field))
Matrix_from_ft(mat) ==
    Matrix(from_f16_16(mat.xx), from_f16_16(mat.xy),
           from_f16_16(mat.yx), from_f16_16(mat.yy))

\* Vector.to_ft_f26_6: FT.Vector(coord_to(self.x), coord_to(self.y))
to_ft_f26_6(self) ==
    FTVector(c_long(coord_to(self.x, F26_6_SHIFT)), c_long(coord_to(self.y, F26_6_SHIFT)))

\* m.to_ft()
Matrix_to_ft_call ==
    /\ marshal.kind = "Matrix" /\ marshal.state = "idle"
    /\ marshal' = [marshal EXCEPT !.ft = Matrix_to_ft(marshal.given), !.state = "converted"]
    /\ UNCHANGED <<outline_vars, library_vars, glyph_vars, append_vars, bitmap_vars,
                   size_vars, final_vars, sfnt_vars>>

\* Matrix.from_ft(mat)
Matrix_from_ft_call ==
    /\ marshal.kind = "Matrix" /\ marshal.state = "converted"
    /\ marshal' = [marshal EXCEPT !.back = Matrix_from_ft(marshal.ft), !.state = "returned"]
    /\ UNCHANGED <<outline_vars, library_vars, glyph_vars, append_vars, bitmap_vars,
                   size_vars, final_vars, sfnt_vars>>

\* v.to_ft_f26_6()
Vector_to_ft_f26_6_call ==
    /\ marshal.kind = "Vector" /\ marshal.state = "idle"
    /\ marshal' = [marshal EXCEPT !.ft = to_ft_f26_6(marshal.given), !.state = "converted"]
    /\ UNCHANGED <<outline_vars, library_vars, glyph_vars, append_vars, bitmap_vars,
                   size_vars, final_vars, sfnt_vars>>

\* Vector.from_ft_f26_6(ftobj)
Vector_from_ft_f26_6_call ==
    /\ marshal.kind = "Vector" /\ marshal.state = "converted"
    /\ marshal' = [marshal EXCEPT !.back = from_ft_f26_6(marshal.ft), !.state = "returned"]
    /\ UNCHANGED <<outline_vars, library_vars, glyph_vars, append_vars, bitmap_vars,
                   size_vars, final_vars, sfnt_vars>>

\* Matrix entries that are multiples of 2^-16, Vector coordinates that are
\* multiples of 1/64
Entries16 == { Big(0, Frac(k, Pow2(F16_16_SHIFT))) : k \in {-65536, -1, 0, 1, 98304} }
Coords26_6 == { Frac(k, Pow2(F26_6_SHIFT)) : k \in {-96, -1, 0, 1, 640} }

InitMarshal ==
    /\ \/ \E xx, xy, yx, yy \in Entries16 :
             marshal = Marshal("Matrix", Matrix(xx, xy, yx, yy))
       \/ \E x, y \in Coords26_6 : marshal = Marshal("Vector", Vector(x, y))
    /\ OutlineIdle /\ LibraryIdle /\ GlyphIdle /\ AppendIdle /\ BitmapIdle /\ SizeIdle
    /\ FinalIdle /\ SfntIdle

NextMarshal ==
    \/ Matrix_to_ft_call
    \/ Matrix_from_ft_call
    \/ Vector_to_ft_f26_6_call
    \/ Vector_from_ft_f26_6_call

SpecMarshal == InitMarshal /\ [][NextMarshal]_vars

(* ============================ the claims ============================== *)

Last(q) == q[Len(q)]

\* decompose is converting conic segments: it was called with conic_to = None
Converting == mode \in {"decompose", "draw"} /\ conic_to = "None"

\* a point of the font engine as the float pair x / 64, y / 64
F26_6(p) == Vector(Frac(p.x, 64), Frac(p.y, 64))
AsInt(p) == Vector(<<p.x, 1>>, <<p.y, 1>>)

\* (a + 2 q) / 3, which is a + 2 (q - a) / 3
TwoThirds(a, q) ==
    Vector(Frac(a.x[1] * q.x[2] + 2 * q.x[1] * a.x[2], 3 * a.x[2] * q.x[2]),
           Frac(a.y[1] * q.y[2] + 2 * q.y[1] * a.y[2], 3 * a.y[2] * q.y[2]))

\* this step reports a segment of this kind
Reports(kind) == Len(segs') = Len(segs) + 1 /\ Last(segs').kind = kind

(* C1: with conic_to = None (and so in draw), a conic segment (Q, P)      *)
(* reported while the tracked current point is P0 makes exactly one call, *)
(* cubic_to(P0 + 2(Q - P0)/3, P + 2(Q - P)/3, P); the draw of freetype.py *)
(* hands the same three points to g.curve_to.                             *)
C1_ConicToCubic ==
    [][ /\ (Converting /\ Reports("conic")) =>
             LET Q == F26_6(Last(segs').pts[1])
                 P == F26_6(Last(segs').pts[2])
             IN  /\ Len(calls') = Len(calls) + 1
                 /\ Last(calls').fn = "cubic_to"
                 /\ Last(calls').args = <<TwoThirds(pos0, Q), TwoThirds(P, Q), P>>
        /\ (mode = "draw1" /\ Reports("conic")) =>
             LET Q == AsInt(Last(segs').pts[1])
                 P == AsInt(Last(segs').pts[2])
                 C1 == TwoThirds(pos0, Q)
                 C2 == TwoThirds(P, Q)
             IN  gcalls' = Append(gcalls,
                     Call("curve_to", <<C1.x, C1.y, C2.x, C2.y, P.x, P.y>>))
      ]_vars

\* a conic has been converted that started away from its control point,
\* after a line
C1_Witness ==
    /\ Converting /\ Len(segs) >= 3
    /\ Last(segs).kind = "conic" /\ segs[Len(segs) - 1].kind = "line"
    /\ Last(calls).fn = "cubic_to"
    /\ Last(calls).args[1] # Last(calls).args[2]
    /\ Last(calls).args[2] # Last(calls).args[3]

(* C2: with conic_to = None, after a conic segment ending at P has been   *)
(* converted the tracked current point is P, so the second of two         *)
(* consecutive conic segments (Q1, M), (Q2, P) gets the first control     *)
(* point M + 2(Q2 - M)/3.                                                  *)
C2_CurrentAfterConic ==
    Converting =>
       /\ (segs # <<>> /\ Last(segs).kind = "conic") => pos0 = F26_6(Last(segs).pts[2])
       /\ \A i \in 1 .. Len(segs) - 1 :
            (segs[i].kind = "conic" /\ segs[i + 1].kind = "conic") =>
                calls[i + 1].args[1] =
                    TwoThirds(F26_6(segs[i].pts[2]), F26_6(segs[i + 1].pts[1]))

(* C3: with conic_to = None, after a cubic segment (C1, C2, P) has been   *)
(* forwarded the tracked current point is P, so a conic segment following *)
(* it is converted from P.                                                *)
C3_CurrentAfterCubic ==
    Converting =>
       /\ (segs # <<>> /\ Last(segs).kind = "cubic") => pos0 = F26_6(Last(segs).pts[3])
       /\ \A i \in 1 .. Len(segs) - 1 :
            (segs[i].kind = "cubic" /\ segs[i + 1].kind = "conic") =>
                calls[i + 1].args[1] =
                    TwoThirds(F26_6(segs[i].pts[3]), F26_6(segs[i + 1].pts[1]))

\* the point of the cubic Bezier curve (S, C1, C2, P) at t = k / n
CubicAt(S, C1, C2, P, k, n) ==
    Vector_truediv(
        Vector_add(Vector_add(Vector_mul(S, (n - k) * (n - k) * (n - k)),
                              Vector_mul(C1, 3 * (n - k) * (n - k) * k)),
                   Vector_add(Vector_mul(C2, 3 * (n - k) * k * k),
                              Vector_mul(P, k * k * k))),
        n * n * n)

\* the point of the quadratic Bezier curve (S, Q, P) at t = k / n
QuadAt(S, Q, P, k, n) ==
    Vector_truediv(
        Vector_add(Vector_add(Vector_mul(S, (n - k) * (n - k)),
                              Vector_mul(Q, 2 * (n - k) * k)),
                   Vector_mul(P, k * k)),
        n * n)

\* where the segment of call i starts: the end point of the call before it
StartOf(i) == Last(calls[i - 1].args)

(* C4: with conic_to = None, the cubic emitted for a conic segment        *)
(* (Q, P), taken from the end point of the segment emitted before it, is  *)
(* the same curve as the quadratic from that point with control Q and end *)
(* P: equal at every t = k / SampleDen.                                   *)
C4_SameCurve ==
    Converting =>
       \A i \in 2 .. Len(segs) :
          segs[i].kind = "conic" =>
             \A k \in 0 .. SampleDen :
                CubicAt(StartOf(i), calls[i].args[1], calls[i].args[2],
                        calls[i].args[3], k, SampleDen)
                  = QuadAt(StartOf(i), F26_6(segs[i].pts[1]),
                           F26_6(segs[i].pts[2]), k, SampleDen)

\* decompose / draw of freetype2.py are running: the wrappers are in use
Wrapping == mode \in {"decompose", "draw"}

(* C5: with a conic_to that is not None, every conic segment (Q, P) makes *)
(* exactly one call, conic_to(Q, P, arg), and cubic_to is called for a    *)
(* conic segment only when conic_to is None.                              *)
C5_ConicForwarded ==
    Wrapping =>
       /\ Len(calls) = Len(segs)
       /\ \A i \in 1 .. Len(segs) :
            segs[i].kind = "conic" =>
               /\ conic_to # "None" =>
                    /\ calls[i].fn = "conic_to"
                    /\ calls[i].args = <<F26_6(segs[i].pts[1]), F26_6(segs[i].pts[2])>>
               /\ calls[i].fn = "cubic_to" => conic_to = "None"
               /\ conic_to = "None" => calls[i].fn = "cubic_to"

\* a conic segment has been handed to the caller's conic_to
C5_Witness ==
    /\ mode = "decompose" /\ conic_to = "user"
    /\ segs # <<>> /\ Last(segs).kind = "conic"
    /\ Last(calls).fn = "conic_to"
    /\ Last(calls).args[1] # Last(calls).args[2]

(* C6: every cubic segment (C1, C2, P) makes exactly one call,            *)
(* cubic_to(C1, C2, P, arg), with the same three points in the same       *)
(* order, whether conic_to is None or not.                                *)
C6_CubicForwarded ==
    Wrapping =>
       /\ Len(calls) = Len(segs)
       /\ \A i \in 1 .. Len(segs) :
            segs[i].kind = "cubic" =>
               /\ calls[i].fn = "cubic_to"
               /\ calls[i].args = <<F26_6(segs[i].pts[1]), F26_6(segs[i].pts[2]),
                                    F26_6(segs[i].pts[3])>>

\* a cubic segment with three different points has been forwarded, under
\* a conic_to that is not None
C6_Witness ==
    /\ Wrapping /\ conic_to = "user"
    /\ segs # <<>> /\ Last(segs).kind = "cubic"
    /\ Last(calls).fn = "cubic_to"
    /\ Cardinality({Last(calls).args[j] : j \in 1 .. 3}) = 3

\* the outline is one contour of on-curve points only
AllOnCurve ==
    /\ ftobj.n_contours = 1
    /\ \A i \in 1 .. ftobj.n_points : ftobj.tags[i] = CURVEPT_ON

\* the i-th call expected for such an outline of n points: the move to the
\* first point, the lines to points 2 .. n, the closing line to the first
C7_Expected(i) ==
    IF i = 1 THEN Call("move_to", <<F26_6(ftobj.points[1])>>)
    ELSE IF i <= ftobj.n_points THEN Call("line_to", <<F26_6(ftobj.points[i])>>)
    ELSE Call("line_to", <<F26_6(ftobj.points[1])>>)

(* C7: for a single contour of n on-curve points the calls are one        *)
(* move_to to the first point, n - 1 line_to to the others in order and   *)
(* one closing line_to to the first point, and no curve call: the calls   *)
(* made are always the first of these, and all n + 1 of them once         *)
(* decompose has returned.                                                *)
C7_AllOnCurve ==
    (Wrapping /\ AllOnCurve) =>
       /\ Len(calls) <= ftobj.n_points + 1
       /\ \A i \in 1 .. Len(calls) :
            Call(calls[i].fn, calls[i].args) = C7_Expected(i)
       /\ outcome = "returned" => Len(calls) = ftobj.n_points + 1

\* decompose has returned from a contour of at least three on-curve points
C7_Witness ==
    /\ mode = "decompose" /\ AllOnCurve /\ ftobj.n_points >= 3
    /\ outcome = "returned"
    /\ Len(calls) = ftobj.n_points + 1

\* the end point of a call on g: its last two arguments
GEnd(c) == <<c.args[Len(c.args) - 1], c.args[Len(c.args)]>>

\* the last move_to on g at or before call i
MoveBefore(i) ==
    CHOOSE j \in 1 .. i :
       gcalls[j].fn = "move_to" /\ \A m \in j + 1 .. i : gcalls[m].fn # "move_to"

(* C8: draw calls only move_to, line_to and curve_to on g, never a        *)
(* quadratic curve and never a close; once it has returned, each contour  *)
(* is one move_to followed by at least one segment, and the last of them  *)
(* ends at the point of the move_to.                                      *)
C8_DrawCalls ==
    mode \in {"draw", "draw1"} =>
       /\ \A i \in 1 .. Len(gcalls) : gcalls[i].fn \in {"move_to", "line_to", "curve_to"}
       /\ gcalls # <<>> => gcalls[1].fn = "move_to"
       /\ outcome = "returned" =>
            /\ Cardinality({i \in 1 .. Len(gcalls) : gcalls[i].fn = "move_to"})
                 = ftobj.n_contours
            /\ \A i \in 1 .. Len(gcalls) :
                 (i = Len(gcalls) \/ gcalls[i + 1].fn = "move_to") =>
                    /\ gcalls[i].fn # "move_to"
                    /\ GEnd(gcalls[i]) = GEnd(gcalls[MoveBefore(i)])

\* draw has returned after closing two contours, one of them with a curve
C8_Witness ==
    /\ mode = "draw" /\ outcome = "returned" /\ ftobj.n_contours = 2
    /\ Last(gcalls).fn = "curve_to"
    /\ \E i \in 1 .. Len(gcalls) - 1 :
          gcalls[i].fn = "line_to" /\ gcalls[i + 1].fn = "move_to"

\* every action called so far returned 0
AllSucceeded == \A i \in 1 .. Len(calls) : calls[i].sts = 0

(* C9: the wrappers hand each action's status to the font engine          *)
(* unchanged; no action is called after one has returned a status other   *)
(* than 0; decompose raises FTException with the status the decomposition *)
(* ended with (nsts; the failing action's status if there is one)         *)
(* whenever that is not 0, and returns only when it is 0, every action    *)
(* having returned 0.                                                     *)
C9_StatusPropagated ==
    Wrapping =>
       /\ Len(calls) = Len(segs)
       /\ \A i \in 1 .. Len(calls) : segs[i].ret = calls[i].sts
       /\ \A i \in 1 .. Len(calls) - 1 : calls[i].sts = 0
       /\ ~AllSucceeded => nsts = Last(calls).sts
       /\ outcome = "raised" => (nsts # 0 /\ exc = nsts)
       /\ outcome = "returned" => (nsts = 0 /\ exc = 0 /\ AllSucceeded)

\* decompose has raised the status its third action returned
C9_Witness ==
    /\ mode = "decompose" /\ outcome = "raised"
    /\ Len(calls) = 3 /\ Last(calls).sts = 1 /\ exc = 1

(* C10: Outline.contours never truncates silently: when the point index   *)
(* has reached n_points inside a contour that has not reached its end     *)
(* index, the next step raises IndexError and nothing is returned; when   *)
(* it does return, every contour returned ends with the point at its      *)
(* declared end index.                                                    *)
C10_NoSilentTruncation ==
    /\ [][ (cstate = "while" /\ pointindex = ftobj.n_points) =>
              (cstate' = "raised" /\ cexc' = "IndexError" /\ retval' = <<>>) ]_vars
    /\ [](cstate = "raised" => retval = <<>>)
    /\ [](cstate = "returned" =>
            /\ Len(retval) = ftobj.n_contours
            /\ \A k \in 1 .. Len(retval) :
                 /\ ftobj.contours[k] \in 0 .. ftobj.n_points - 1
                 /\ Last(retval[k]) = contours_triple(ftobj, ftobj.contours[k]))

\* the point index ran off the end in the second contour, after the first
\* had been collected, and IndexError was raised
C10_Witness ==
    /\ cstate = "raised" /\ cexc = "IndexError"
    /\ pointindex = ftobj.n_points
    /\ Len(result) = 1 /\ contour # <<>>
    /\ retval = <<>>

\* contour k (from 1) has no points: its end index does not lie beyond the
\* end index of the contour before it, or below 0 for the first contour
ZeroPointContour(o, k) ==
    o.contours[k] <= (IF k = 1 THEN -1 ELSE o.contours[k - 1])

HasZeroPointContour(o) == \E k \in 1 .. o.n_contours : ZeroPointContour(o, k)

(* C11: an outline with a zero-point contour is rejected by                *)
(* Outline.contours: the property never returns for it, neither an empty  *)
(* nor a duplicated nor a substitute contour.                             *)
C11_ZeroPointContourRejected ==
    HasZeroPointContour(ftobj) => cstate # "returned"

\* the first n callbacks of the call in progress handed back the statuses
\* the same callbacks handed back in the earlier call p
SameStatuses(p, n) ==
    \A j \in 1 .. n : j <= Len(p.rets) /\ segs[j].ret = p.rets[j]

(* C12: a second call of decompose or draw on the same unmodified outline *)
(* with the same actions starts with a fresh tracked current point (None) *)
(* and, as long as the actions return what they returned in the first     *)
(* call, emits the same calls with the same arguments and ends the same   *)
(* way.                                                                   *)
C12_SecondCallIdentical ==
    ncall >= 2 =>
       LET p == prev[ncall - 1] IN
          /\ (outcome = "running" /\ segs = <<>>) => pos0 = None
          /\ \A i \in 1 .. Len(segs) :
                SameStatuses(p, i - 1) =>
                   (i <= Len(p.emitted) /\ Emitted[i] = p.emitted[i])
          /\ (outcome # "running" /\ SameStatuses(p, Len(segs))) =>
                /\ Emitted = p.emitted
                /\ outcome = p.outcome /\ exc = p.exc

\* the second call on an outline has returned after converting a conic
\* segment that followed another segment, as the first call had
C12_Witness ==
    /\ ncall = 2 /\ Converting /\ outcome = "returned"
    /\ prev[1].outcome = "returned"
    /\ Len(segs) >= 3 /\ Len(prev[1].emitted) = Len(segs)
    /\ \E i \in 2 .. Len(segs) : segs[i].kind = "conic" /\ Emitted[i].fn = "cubic_to"

\* the call f of thread t has emitted what it emits alone, as far as it has
\* come
EmitsAsAlone(f, t) ==
    /\ Len(f.calls) <= Len(alone[t])
    /\ \A i \in 1 .. Len(f.calls) : Call(f.calls[i].fn, f.calls[i].args) = alone[t][i]
    /\ f.outcome = "returned" => Len(f.calls) = Len(alone[t])

(* C13: of two decompose calls on distinct outlines whose callbacks run   *)
(* in any order, each emits the calls it emits when it runs alone: always *)
(* the first of them, and all of them once it has returned.               *)
C13_CallsIndependent ==
    (mode = "decompose" /\ suspended.outcome # "idle") =>
       (EmitsAsAlone(RunningFrame, tid) /\ EmitsAsAlone(suspended, 3 - tid))

\* both calls are in progress, each having just converted a conic segment
\* from a tracked point of its own
C13_Witness ==
    /\ outcome = "running" /\ suspended.outcome = "running"
    /\ conic_to = "None" /\ suspended.conic_to = "None"
    /\ Len(segs) >= 2 /\ Len(suspended.segs) >= 2
    /\ Last(segs).kind = "conic" /\ Last(suspended.segs).kind = "conic"
    /\ Last(calls).sts = 0 /\ Last(suspended.calls).sts = 0
    /\ pos0 # suspended.pos0

\* the bits of a tag byte above its two point-type bits
DropoutBits(flag) == flag \div 4

(* C14: the dropout_flags of a triple returned by Outline.contours are    *)
(* the bits of the point's tag byte above the point-type bits, whatever   *)
(* the tag: stated for the last point of every contour returned, which is *)
(* the point at the contour's end index.                                  *)
C14_DropoutFlagsPassed ==
    cstate = "returned" =>
       \A k \in 1 .. Len(retval) :
          Last(retval[k])[3] = DropoutBits(Tag(ftobj, ftobj.contours[k]))

(* C15: whatever the tag bytes, the point_type of every triple that       *)
(* Outline.contours collects and returns is CURVEPT_ON, CURVEPT_OFF2 or   *)
(* CURVEPT_OFF3.                                                          *)
C15_PointTypeIsCurvept ==
    /\ \A i \in 1 .. Len(contour) : IsCURVEPT(contour[i][2])
    /\ \A k \in 1 .. Len(retval) :
          \A i \in 1 .. Len(retval[k]) : IsCURVEPT(retval[k][i][2])

\* this step is a call of op that ends with res
LibStep(op, res) ==
    /\ Len(lib_log') = Len(lib_log) + 1
    /\ Last(lib_log') = LibCall(op, res)

\* this step is a call of Library() or get_default_lib() that raises
LibRaises ==
    /\ Len(lib_log') = Len(lib_log) + 1
    /\ Last(lib_log').result # "returned"

(* C16: never have both a default Library and a directly constructed      *)
(* Library been created; once default_lib exists every Library() raises   *)
(* RuntimeError; once a Library has been constructed directly every       *)
(* get_default_lib() raises RuntimeError; a call that raises leaves       *)
(* default_lib and got_lib_instances unchanged.                           *)
C16_ConventionsNotMixed ==
    /\ [](~(\E i, j \in 1 .. Len(libs) : libs[i] = "default" /\ libs[j] = "direct"))
    /\ [](default_lib # NoLib <=> (\E i \in 1 .. Len(libs) : libs[i] = "default"))
    /\ [][ /\ (default_lib # NoLib /\ Len(lib_log') = Len(lib_log) + 1
                 /\ Last(lib_log').op = "Library")
              => LibStep("Library", "RuntimeError")
           /\ ((\E i \in 1 .. Len(libs) : libs[i] = "direct")
                 /\ Len(lib_log') = Len(lib_log) + 1
                 /\ Last(lib_log').op = "get_default_lib")
              => LibStep("get_default_lib", "RuntimeError")
           /\ LibRaises => UNCHANGED <<default_lib, got_lib_instances, libs>>
         ]_vars

\* a Library was constructed directly, then get_default_lib() raised
\* RuntimeError and a second Library was constructed directly
C16_Witness ==
    /\ Len(lib_log) >= 3
    /\ libs = <<"direct", "direct">>
    /\ \E i \in 2 .. Len(lib_log) : lib_log[i] = LibCall("get_default_lib", "RuntimeError")
    /\ default_lib = NoLib /\ got_lib_instances

(* C17: after a call of to_bitmap, stroke or stroke_border that did not   *)
(* raise: with replace true the Glyph holds the glyph the font engine     *)
(* made and None is returned; with replace false a new Glyph object       *)
(* holding the new glyph is returned and the Glyph the call was made on   *)
(* still holds the glyph it held before.                                  *)
C17_ReplaceOrReturn ==
    (glyph_log # <<>> /\ ~Last(glyph_log).raised) =>
       LET e == Last(glyph_log)
           new == Len(natives)
       IN  IF e.replace
           THEN e.result = NoGlyph /\ Held(e.glyph) = new
           ELSE /\ e.result = Len(glyph_ftobj)
                /\ Held(e.result) = new
                /\ Held(e.glyph) = e.before

(* C18: after Outline.append or Stroker.export has returned, the outline  *)
(* holds its former points, tags and contours followed by the appended    *)
(* ones and is well formed: the counts are the sums, every appended       *)
(* contour ends at its former end index plus the receiver's former number *)
(* of points, the end indices increase strictly and the last one is       *)
(* n_points - 1.                                                          *)
C18_AppendWellFormed ==
    astate = "appended" =>
       /\ ftobj.n_points = before.n_points + that.n_points
       /\ ftobj.n_contours = before.n_contours + that.n_contours
       /\ ftobj.points = before.points \o that.points
       /\ ftobj.tags = before.tags \o that.tags
       /\ Len(ftobj.contours) = ftobj.n_contours
       /\ \A k \in 1 .. before.n_contours : ftobj.contours[k] = before.contours[k]
       /\ \A k \in 1 .. that.n_contours :
             ftobj.contours[before.n_contours + k] = that.contours[k] + before.n_points
       /\ \A k \in 1 .. ftobj.n_contours - 1 : ftobj.contours[k] < ftobj.contours[k + 1]
       /\ ftobj.n_contours > 0 => Last(ftobj.contours) = ftobj.n_points - 1

(* C19: the array Bitmap.to_array(pitch) returns has rows * pitch bytes   *)
(* and holds, at offset i * pitch + j for every row i and every j below   *)
(* the source pitch, the source byte at i * source pitch + j; the bitmap  *)
(* is left as it was; a pitch below the source pitch is rejected and      *)
(* nothing is returned (AssertionError; NotImplementedError for a pitch   *)
(* below 0).                                                              *)
C19_ToArrayCopies ==
    /\ [](bstate = "returned" =>
            LET pitch == to_array_pitch(bitmap, pitch_arg) IN
               /\ Len(buffer) = bitmap.rows * pitch
               /\ \A i \in 0 .. bitmap.rows - 1 :
                     \A j \in 0 .. bitmap.pitch - 1 :
                        buffer[i * pitch + j + 1] = bitmap.buffer[i * bitmap.pitch + j + 1])
    /\ []((bstate # "idle" /\ to_array_pitch(bitmap, pitch_arg) < bitmap.pitch) =>
            /\ buffer = <<>>
            /\ bstate = (IF pitch_arg[1] < 0 THEN "NotImplementedError" ELSE "AssertionError"))
    /\ [][bitmap' = bitmap]_vars

\* two rows of two bytes or more have been copied into rows that are longer
C19_Witness ==
    /\ bstate = "returned"
    /\ bitmap.rows = 2 /\ bitmap.pitch >= 2
    /\ pitch_arg # <<>> /\ pitch_arg[1] > bitmap.pitch
    /\ buffer[pitch_arg[1] + 1] = bitmap.buffer[bitmap.pitch + 1]
    /\ buffer[pitch_arg[1]] = 48

\* an argument handed to the font engine that came from the float v
Converted(v) == <<to_f26_6(v[1])>>

(* C20: set_char_size hands to FT_Set_Char_Size to_f26_6(size) as both    *)
(* width and height when size is specified, and the width and height      *)
(* given when they are specified separately; likewise resolution against  *)
(* horz_resolution and vert_resolution; a call that specifies neither     *)
(* form of the size, or neither form of the resolution, fails the         *)
(* assertion without a native call, and no None reaches the font engine.  *)
C20_SetCharSize ==
    mode = "set_char_size" =>
       /\ \A i \in 1 .. Len(native) :
             /\ size_args.size # <<>> =>
                   /\ native[i].char_width = Converted(size_args.size)
                   /\ native[i].char_height = Converted(size_args.size)
             /\ (size_args.width # <<>> /\ size_args.height # <<>>) =>
                   /\ native[i].char_width = Converted(size_args.width)
                   /\ native[i].char_height = Converted(size_args.height)
             /\ size_args.resolution # <<>> =>
                   /\ native[i].horz_resolution = size_args.resolution
                   /\ native[i].vert_resolution = size_args.resolution
             /\ (size_args.horz_resolution # <<>> /\ size_args.vert_resolution # <<>>) =>
                   /\ native[i].horz_resolution = size_args.horz_resolution
                   /\ native[i].vert_resolution = size_args.vert_resolution
             /\ <<>> \notin {native[i].char_width, native[i].char_height,
                             native[i].horz_resolution, native[i].vert_resolution}
       /\ (sstate # "idle"
             /\ (\/ (size_args.size = <<>> /\ (size_args.width = <<>> \/ size_args.height = <<>>))
                 \/ (size_args.resolution = <<>>
                       /\ (size_args.horz_resolution = <<>> \/ size_args.vert_resolution = <<>>))))
          => (sstate = "AssertionError" /\ native = <<>>)

\* contour end indices strictly increasing, the last one n_points - 1
WellFormed(o) ==
    /\ o.n_contours >= 1
    /\ EndOf(o, o.n_contours - 1) = o.n_points - 1
    /\ EndOf(o, 0) >= 0
    /\ \A k \in 1 .. o.n_contours - 1 : EndOf(o, k - 1) < EndOf(o, k)

\* the triples of points first .. last of o, in order
PointsFromTo(o, first, last) ==
    [i \in 1 .. last - first + 1 |-> contours_triple(o, first + i - 1)]

(* C21: for a well-formed outline Outline.contours returns n_contours     *)
(* tuples, contour k being the points from index end[k-1] + 1 through     *)
(* end[k], so that every point appears in exactly one contour.            *)
C21_ContoursPartitionPoints ==
    (WellFormed(ftobj) /\ cstate = "returned") =>
       /\ Len(retval) = ftobj.n_contours
       /\ \A k \in 0 .. ftobj.n_contours - 1 :
             retval[k + 1] = PointsFromTo(ftobj, FirstOf(ftobj, k), EndOf(ftobj, k))

\* the Glyph objects not finalized
LiveGlyphs == { g \in 1 .. Len(glyph_ftobj) : glyph_ftobj[g] # NoCell }

(* C22: across get_glyph, copy, to_bitmap, stroke, stroke_border and the  *)
(* finalization of Glyph objects, no glyph handle is held by two Glyph    *)
(* objects at once and none is passed to FT_Done_Glyph more than once.    *)
C22_GlyphHandleOwnedOnce ==
    /\ \A g, h \in LiveGlyphs : g # h => Held(g) # Held(h)
    /\ \A i, j \in 1 .. Len(done_glyphs) : i # j => done_glyphs[i] # done_glyphs[j]

\* a disposal call has just been made for wrapper i or for a glyph
Disposing(i) == wrappers'[i].calls > wrappers[i].calls
DisposingGlyph == done_glyphs' # done_glyphs

(* C23: Face, Outline, Bitmap, Stroker and Glyph finalizers make their    *)
(* native disposal call only while the Library is still alive, each       *)
(* object's finalizer makes it at most once, and an Outline or Bitmap     *)
(* whose storage belongs to an owner or to a Python array is never        *)
(* disposed by its wrapper.                                               *)
C23_DisposalWhileLibraryAlive ==
    /\ [][(DisposingGlyph \/ \E i \in 1 .. Len(wrappers) : Disposing(i)) => lib_alive]_vars
    /\ [](\A i \in 1 .. Len(wrappers) :
             /\ wrappers[i].calls <= 1
             /\ wrappers[i].storage \in {"owner", "array"} => wrappers[i].calls = 0)

(* C24: in Face.load_sfnt_table, whenever FT_Load_Sfnt_Table is called    *)
(* with a non-null buffer, the byte count it is told to read does not     *)
(* exceed the size of that buffer.                                        *)
C24_ReadFitsBuffer ==
    \A i \in 1 .. Len(sfnt_calls) :
       sfnt_calls[i].bufadr # <<>> => sfnt_calls[i].count <= sfnt_calls[i].bufadr[1]

\* load_sfnt_table has ended: returned, raised, or the process has died
SfntDone == sfnt.state \in {"returned", "FTException", "AssertionError", "crashed"}

\* the calls made by load_sfnt_table, as far as it has got, are the ones of
\* its protocol
SfntProtocol ==
    /\ Len(sfnt_calls) <= 2
    /\ sfnt.length_arg = <<>> =>
          /\ Len(sfnt_calls) >= 1 =>
                sfnt_calls[1].bufadr = <<>> /\ sfnt_calls[1].count = 0
          /\ Len(sfnt_calls) = 2 =>
                /\ sfnt_calls[2].count = sfnt.table_length
                /\ sfnt_calls[2].bufadr =
                      buffer_info(sfnt.table_length - sfnt.offset)
    /\ sfnt.length_arg # <<>> =>
          /\ Len(sfnt_calls) <= 1
          /\ (SfntDone /\ sfnt.state # "AssertionError") => Len(sfnt_calls) = 1

\* the length of the data asked for: the one given, else the table's
SfntLength == IF sfnt.length_arg # <<>> THEN sfnt.length_arg[1] ELSE sfnt.table_length

C26_FixedRoundTrip ==
    marshal.state = "returned" => marshal.back = marshal.given

====
